---- MODULE Spec2Model ----
(***************************************************************************)
(* A model of the peer-to-peer chess program: the rules engine of          *)
(* src/src/chess.rs (GameState) and the session state machine and wire     *)
(* protocol of src/src/net_chess.rs (MyMove / AwaitAck / OtherMove).       *)
(*                                                                         *)
(* A BoardPosition is a pair <<file, rank>>; pos[1] is the source's pos.0  *)
(* and pos[2] is pos.1.  board_state is indexed board_state[rank][file]    *)
(* exactly as in the source (board_state[pos.1][pos.0]).                   *)
(***************************************************************************)
EXTENDS Integers, Sequences, FiniteSets, TLC

VARIABLES
    game,       \* engine runs: the one GameState
    moved,      \* engine runs (history): squares whose occupant has moved before
    last,       \* engine runs (history): the last move applied
    crashed,    \* engine runs: a panic aborted the process
    peer,       \* session runs: per peer, its state, board and pending move
    chan,       \* session runs: per peer, the bytes in flight towards it
    sent,       \* session runs (history): packets sent so far, per peer and kind
    line,       \* the opening line the players follow before choosing freely
    ply,        \* number of moves chosen so far
    free,       \* number of freely chosen (off-line) moves so far
    query       \* checkmate-query runs: the position and the answer

vars == <<game, moved, last, crashed, peer, chan, sent, line, ply, free, query>>

-----------------------------------------------------------------------------
(* Bounds of the model *)

\* freely chosen plies allowed after an opening line, engine runs
MaxFree == 1
\* freely chosen plies allowed after an opening line, session runs
MaxFreeNet == 1
\* the packets the remote end of a stream writes in a run of SpecWire
MaxRemote == 3
\* the largest argument of sieve_upto
MaxUpto == 30
\* the most vertices of a graph, and the most edges leaving one vertex
MaxVertices == 3
MaxOut == 2

-----------------------------------------------------------------------------
(* Board model: chess.rs 21-61, 100-128 *)

Coord == 0..7
Positions == Coord \X Coord

White == "White"
Black == "Black"
Color == {White, Black}

\* impl Not for Color
Not(c) == IF c = White THEN Black ELSE White

Empty == [piece |-> "Empty", moved |-> FALSE, color |-> "None"]
\* Occupied(Piece, Color) for the pieces without a payload
Occupied(p, c) == [piece |-> p, moved |-> FALSE, color |-> c]
\* Occupied(Piece::Pawn(has_moved), Color)
Pawn(has_moved, c) == [piece |-> "Pawn", moved |-> has_moved, color |-> c]

IsOccupied(sq) == sq.piece # "Empty"

None == <<>>
Some(x) == <<x>>
Unwrap(o) == o[1]

Abs(n) == IF n < 0 THEN -n ELSE n
Min(a, b) == IF a < b THEN a ELSE b

OnBoard(pos) == pos[1] \in Coord /\ pos[2] \in Coord

\* self.board_state[pos.1][pos.0]
At(gs, pos) == gs.board_state[pos[2]][pos[1]]

\* (to_pos.0 - from_pos.0, to_pos.1 - from_pos.1)
PosDiff(from_pos, to_pos) == <<to_pos[1] - from_pos[1], to_pos[2] - from_pos[2]>>

\* GameState::new
GameStateNew ==
    [board_state |-> [i \in Coord |-> [c \in Coord |-> Empty]],
     turn |-> White,
     black_can_castle_left |-> TRUE,
     white_can_castle_left |-> TRUE,
     black_can_castle_right |-> TRUE,
     white_can_castle_right |-> TRUE,
     en_passant_square |-> None]

LowerCase == {"p", "r", "b", "n", "q", "k"}

to_ascii_lowercase(c) ==
    CASE c = "P" -> "p" [] c = "R" -> "r" [] c = "B" -> "b"
      [] c = "N" -> "n" [] c = "Q" -> "q" [] c = "K" -> "k"
      [] OTHER -> c

c_to_sq(c) ==
    LET color == IF c \in LowerCase THEN Black ELSE White
        l == to_ascii_lowercase(c)
    IN CASE l = "." -> Empty
         [] l = "p" -> Pawn(FALSE, color)
         [] l = "r" -> Occupied("Rook", color)
         [] l = "b" -> Occupied("Bishop", color)
         [] l = "n" -> Occupied("Knight", color)
         [] l = "q" -> Occupied("Queen", color)
         [] l = "k" -> Occupied("King", color)

default_state ==
    << "r","n","b","q","k","b","n","r",
       "p","p","p","p","p","p","p","p",
       ".",".",".",".",".",".",".",".",
       ".",".",".",".",".",".",".",".",
       ".",".",".",".",".",".",".",".",
       ".",".",".",".",".",".",".",".",
       "P","P","P","P","P","P","P","P",
       "R","N","B","Q","K","B","N","R" >>

\* Board::setup_set_game on a fresh Board::new
setup_set_game(state, turn, bcl, bcr, wcl, wcr, eps) ==
    [board_state |-> [i \in Coord |-> [c \in Coord |-> c_to_sq(state[i * 8 + c + 1])]],
     turn |-> turn,
     black_can_castle_left |-> bcl,
     white_can_castle_left |-> wcl,
     black_can_castle_right |-> bcr,
     white_can_castle_right |-> wcr,
     en_passant_square |-> eps]

\* Board::setup_new_game
setup_new_game == setup_set_game(default_state, White, TRUE, TRUE, TRUE, TRUE, None)

\* line 125 with the quotient as the rank: pos = (x % 8, x / 8)
IterPos_rank_first(x) == <<x % 8, x \div 8>>

\* GameState::piece_iterator: x in 0..64, pos = (x / 8, x % 8), occupied only
IterPos(x) == <<x \div 8, x % 8>>

RECURSIVE piece_iterator_from(_, _)
piece_iterator_from(gs, x) ==
    IF x >= 64 THEN <<>>
    ELSE IF At(gs, IterPos(x)) # Empty
         THEN <<IterPos(x)>> \o piece_iterator_from(gs, x + 1)
         ELSE piece_iterator_from(gs, x + 1)

piece_iterator(gs) == piece_iterator_from(gs, 0)

-----------------------------------------------------------------------------
(* Rules engine: chess.rs 129-385 *)

\* GameState::is_legal_start without the comparison of line 286
is_legal_start_any_colour(gs, pos) == IsOccupied(At(gs, pos))

\* GameState::is_legal_start (on-board positions)
is_legal_start(gs, pos) ==
    IF IsOccupied(At(gs, pos)) THEN At(gs, pos).color = gs.turn ELSE FALSE

\* GameState::is_valid_rook_move
is_valid_rook_move(gs, from_pos, to_pos) ==
    LET pos_diff == PosDiff(from_pos, to_pos) IN
    IF pos_diff[1] # 0 /\ pos_diff[2] # 0 THEN FALSE
    ELSE IF pos_diff[1] = 0
         THEN LET start == Min(to_pos[2], from_pos[2]) IN
              \A i \in (start + 1)..(start + Abs(pos_diff[2]) - 1) :
                  ~IsOccupied(gs.board_state[i][from_pos[1]])
         ELSE LET start == Min(to_pos[1], from_pos[1]) IN
              \A i \in (start + 1)..(start + Abs(pos_diff[1]) - 1) :
                  ~IsOccupied(gs.board_state[from_pos[2]][i])

\* GameState::is_valid_bishop_move (from_pos # to_pos)
is_valid_bishop_move(gs, from_pos, to_pos) ==
    LET pos_diff == PosDiff(from_pos, to_pos) IN
    IF Abs(pos_diff[1]) # Abs(pos_diff[2]) THEN FALSE
    ELSE LET i_dir == IF pos_diff[1] > 0 THEN 1 ELSE -1
             j_dir == IF pos_diff[2] > 0 THEN 1 ELSE -1
         IN \A k \in 1..(Abs(pos_diff[1]) - 1) :
                ~IsOccupied(gs.board_state[from_pos[2] + k * j_dir][from_pos[1] + k * i_dir])

\* GameState::is_attacking_movement_ok: the panics (empty from square, or a
\* target of the mover's own colour)
is_attacking_movement_ok_panics(gs, from_pos, to_pos) ==
    \/ ~IsOccupied(At(gs, from_pos))
    \/ IsOccupied(At(gs, to_pos)) /\ At(gs, to_pos).color = At(gs, from_pos).color

\* GameState::is_attacking_movement_ok: the value when it does not panic
is_attacking_movement_ok(gs, from_pos, to_pos, pretend_occupied) ==
    LET sq == At(gs, from_pos)
        color == sq.color
        pos_diff == PosDiff(from_pos, to_pos)
    IN CASE sq.piece = "Knight" ->
              \/ Abs(pos_diff[1]) = 2 /\ Abs(pos_diff[2]) = 1
              \/ Abs(pos_diff[1]) = 1 /\ Abs(pos_diff[2]) = 2
         [] sq.piece = "King" -> Abs(pos_diff[1]) <= 1 /\ Abs(pos_diff[2]) <= 1
         [] sq.piece = "Rook" -> is_valid_rook_move(gs, from_pos, to_pos)
         [] sq.piece = "Bishop" -> is_valid_bishop_move(gs, from_pos, to_pos)
         [] sq.piece = "Queen" ->
              is_valid_bishop_move(gs, from_pos, to_pos) \/ is_valid_rook_move(gs, from_pos, to_pos)
         [] sq.piece = "Pawn" ->
              /\ pretend_occupied \/ IsOccupied(At(gs, to_pos))
              /\ Abs(pos_diff[1]) = 1
              /\ \/ pos_diff[2] = 1 /\ color = Black
                 \/ pos_diff[2] = -1 /\ color = White

\* GameState::is_square_attacked: the assert_ne! on the target's colour
is_square_attacked_panics(gs, pos, attacker) ==
    IsOccupied(At(gs, pos)) /\ At(gs, pos).color = attacker

\* GameState::is_square_attacked: the value when it does not panic.  The loop
\* over piece_iterator returns true at the first attacker found, false at its
\* end: the result is the existence of an attacker among the occupied squares.
is_square_attacked(gs, pos, attacker) ==
    \E x \in 0..63 :
        LET piece_pos == IterPos(x) IN
        /\ IsOccupied(At(gs, piece_pos))
        /\ At(gs, piece_pos).color = attacker
        /\ is_attacking_movement_ok(gs, piece_pos, pos, TRUE)

\* self.board_state[pos.1][pos.0] = sq
SetSq(board, pos, sq) == [board EXCEPT ![pos[2]][pos[1]] = sq]

\* do_move 308-314 clearing only the left flag of colour c
ClearBoth_left_only(gs, c) ==
    IF c = White
    THEN [gs EXCEPT !.white_can_castle_left = FALSE]
    ELSE [gs EXCEPT !.black_can_castle_left = FALSE]

\* the castling-rights flags after a king move of colour c (do_move 308-314)
ClearBoth(gs, c) ==
    IF c = White
    THEN [gs EXCEPT !.white_can_castle_left = FALSE, !.white_can_castle_right = FALSE]
    ELSE [gs EXCEPT !.black_can_castle_left = FALSE, !.black_can_castle_right = FALSE]

\* the castling-rights flags after a rook move from from_pos (do_move 333-348)
ClearRook(gs, from_pos) ==
    LET back_rank == IF gs.turn = White THEN 7 ELSE 0 IN
    IF from_pos[2] = back_rank
    THEN IF from_pos[1] = 0
         THEN IF gs.turn = White
              THEN [gs EXCEPT !.white_can_castle_left = FALSE]
              ELSE [gs EXCEPT !.black_can_castle_left = FALSE]
         ELSE IF from_pos[1] = 7
              THEN IF gs.turn = White
                   THEN [gs EXCEPT !.white_can_castle_right = FALSE]
                   ELSE [gs EXCEPT !.black_can_castle_right = FALSE]
              ELSE gs
    ELSE gs

\* GameState::do_move: the failed assert! of the castling branch and the
\* unwrap of an absent en-passant square
do_move_panics(gs, from_pos, to_pos) ==
    LET pos_diff == PosDiff(from_pos, to_pos)
        sq == At(gs, from_pos)
    IN \/ /\ sq.piece = "King"
          /\ Abs(pos_diff[1]) = 2
          /\ LET rook_x == IF pos_diff[1] < 0 THEN 0 ELSE 7 IN
             gs.board_state[from_pos[2]][rook_x] # Occupied("Rook", gs.turn)
       \/ /\ sq.piece = "Pawn"
          /\ Abs(pos_diff[2]) # 2
          /\ Abs(pos_diff[1]) = 1
          /\ At(gs, to_pos) = Empty
          /\ gs.en_passant_square = None

\* line 322 recording the square the pawn passed over instead of to_pos
en_passant_after_passed(gs, from_pos, to_pos) ==
    IF At(gs, from_pos).piece = "Pawn" /\ Abs(to_pos[2] - from_pos[2]) = 2
    THEN Some(<<to_pos[1], (from_pos[2] + to_pos[2]) \div 2>>)
    ELSE None

\* do_move without the reset of line 295: the target survives other moves
en_passant_after_kept(gs, from_pos, to_pos) ==
    IF At(gs, from_pos).piece = "Pawn" /\ Abs(to_pos[2] - from_pos[2]) = 2
    THEN Some(to_pos)
    ELSE gs.en_passant_square

\* GameState::do_move 294-295, 321-322: en_passant_square after the move,
\* reset first and set again by a pawn that moves two ranks
en_passant_after(gs, from_pos, to_pos) ==
    IF At(gs, from_pos).piece = "Pawn" /\ Abs(to_pos[2] - from_pos[2]) = 2
    THEN Some(to_pos)
    ELSE None

\* line 325 taking the square the capturing pawn lands on
captured_pass_pos_landing(gs, to_pos) == to_pos

\* do_move 325: pass_pos, the square recorded before the move
\* (old_en_passant_square.unwrap())
captured_pass_pos(gs, to_pos) == Unwrap(gs.en_passant_square)

\* line 328 written as the other arms are: the square is copied as it is
landed_pawn_flag_kept(gs, from_pos) == At(gs, from_pos)

\* do_move 328: the pawn put on to_pos, with has_moved set
landed_pawn(gs, from_pos) == Pawn(TRUE, gs.turn)

\* GameState::do_move: the state after the call when it does not panic
\* do_move without line 358: the side to move stays
turn_after_move_kept(gs) == gs.turn

\* the side to move after do_move (358): self.turn = !self.turn
turn_after_move(gs) == Not(gs.turn)

do_move(gs, from_pos, to_pos) ==
    LET old_en_passant_square == gs.en_passant_square
        pos_diff == PosDiff(from_pos, to_pos)
        sq == At(gs, from_pos)
        b0 == gs.board_state
        g1 ==
          CASE sq.piece = "King" ->
                 LET rook_x == IF pos_diff[1] < 0 THEN 0 ELSE 7
                     \* pos_diff.0 / 2 is +1 or -1 here
                     half == IF pos_diff[1] < 0 THEN -1 ELSE 1
                     b1 == IF Abs(pos_diff[1]) = 2
                           THEN SetSq(SetSq(b0, <<to_pos[1] - half, to_pos[2]>>,
                                            Occupied("Rook", gs.turn)),
                                      <<rook_x, from_pos[2]>>, Empty)
                           ELSE b0
                     b2 == SetSq(b1, to_pos, b1[from_pos[2]][from_pos[1]])
                     b3 == SetSq(b2, from_pos, Empty)
                 IN [ClearBoth(gs, gs.turn) EXCEPT !.board_state = b3]
            [] sq.piece = "Pawn" ->
                 LET b1 == IF Abs(pos_diff[2]) = 2 THEN b0
                           ELSE IF Abs(pos_diff[1]) = 1 /\ At(gs, to_pos) = Empty
                                THEN SetSq(b0, captured_pass_pos(gs, to_pos), Empty)
                                ELSE b0
                     b2 == SetSq(b1, to_pos, landed_pawn(gs, from_pos))
                     b3 == SetSq(b2, from_pos, Empty)
                 IN [gs EXCEPT !.board_state = b3]
            [] sq.piece = "Rook" ->
                 LET b2 == SetSq(b0, to_pos, sq)
                     b3 == SetSq(b2, from_pos, Empty)
                 IN [ClearRook(gs, from_pos) EXCEPT !.board_state = b3]
            [] OTHER ->
                 LET b2 == SetSq(b0, to_pos, sq)
                     b3 == SetSq(b2, from_pos, Empty)
                 IN [gs EXCEPT !.board_state = b3]
    IN [g1 EXCEPT !.en_passant_square = en_passant_after(gs, from_pos, to_pos),
                  !.turn = turn_after_move(gs)]

\* the first position of piece_iterator holding sq, as Some(pos), or None
\* (piece_iterator().filter(..).next())
FindFirst(gs, sq) ==
    LET xs == {x \in 0..63 : At(gs, IterPos(x)) = sq} IN
    IF xs = {} THEN None
    ELSE Some(IterPos(CHOOSE x \in xs : \A y \in xs : x <= y))

\* line 173 without its second test: only castling out of check is refused
castling_through_check_start_only(gs, from_pos, half) ==
    is_square_attacked(gs, from_pos, Not(gs.turn))

\* is_legal 173: the king castles out of check or through an attacked square
\* (half is pos_diff.0 / 2)
castling_through_check(gs, from_pos, half) ==
    \/ is_square_attacked(gs, from_pos, Not(gs.turn))
    \/ is_square_attacked(gs, <<from_pos[1] + half, from_pos[2]>>, Not(gs.turn))

\* is_legal 139-182: the special rules tried when the attacking movement fails
could_be_legal(gs, from_pos, to_pos) ==
    LET pos_diff == PosDiff(from_pos, to_pos)
        sq == At(gs, from_pos)
    IN CASE sq.piece = "Pawn" ->
              LET pawn_dir == IF gs.turn = White THEN -1 ELSE 1 IN
              IF IsOccupied(At(gs, to_pos)) THEN FALSE
              ELSE IF pos_diff[1] = 0
                   THEN \/ pos_diff[2] = pawn_dir
                        \/ pos_diff[2] = pawn_dir * 2 /\ ~sq.moved
                   ELSE IF gs.en_passant_square # None
                        THEN LET pass_pos == Unwrap(gs.en_passant_square) IN
                             /\ Abs(pos_diff[1]) = 1
                             /\ pos_diff[2] = pawn_dir
                             /\ to_pos[1] = pass_pos[1]
                             /\ to_pos[2] = pass_pos[2] + pawn_dir
                        ELSE FALSE
         [] sq.piece = "King" ->
              LET is_left == pos_diff[1] < 0 IN
              IF pos_diff[2] # 0 \/ Abs(pos_diff[1]) # 2 THEN FALSE
              ELSE IF \/ /\ gs.turn = Black
                         /\ \/ is_left /\ gs.black_can_castle_left
                            \/ ~is_left /\ gs.black_can_castle_right
                      \/ /\ gs.turn = White
                         /\ \/ is_left /\ gs.white_can_castle_left
                            \/ ~is_left /\ gs.white_can_castle_right
                   THEN LET x == IF is_left THEN 0 ELSE 7
                            half == IF is_left THEN -1 ELSE 1
                        IN IF is_valid_rook_move(gs, from_pos, <<x, from_pos[2]>>)
                           THEN ~castling_through_check(gs, from_pos, half)
                           ELSE FALSE
                   ELSE FALSE
         [] OTHER -> FALSE

\* is_legal 161-173: the castling rule reaches the second is_square_attacked
\* of line 173 and its assert_ne! fails (the square the king passes over
\* holds a piece of the attacker's colour)
could_be_legal_panics(gs, from_pos, to_pos) ==
    LET pos_diff == PosDiff(from_pos, to_pos)
        is_left == pos_diff[1] < 0
        half == IF is_left THEN -1 ELSE 1
    IN /\ At(gs, from_pos).piece = "King"
       /\ pos_diff[2] = 0 /\ Abs(pos_diff[1]) = 2
       /\ \/ /\ gs.turn = Black
             /\ \/ is_left /\ gs.black_can_castle_left
                \/ ~is_left /\ gs.black_can_castle_right
          \/ /\ gs.turn = White
             /\ \/ is_left /\ gs.white_can_castle_left
                \/ ~is_left /\ gs.white_can_castle_right
       /\ is_valid_rook_move(gs, from_pos, <<IF is_left THEN 0 ELSE 7, from_pos[2]>>)
       /\ \/ is_square_attacked_panics(gs, from_pos, Not(gs.turn))
          \/ /\ ~is_square_attacked(gs, from_pos, Not(gs.turn))
             /\ is_square_attacked_panics(gs, <<from_pos[1] + half, from_pos[2]>>,
                                          Not(gs.turn))

\* is_legal 188-191 fails: the assert! or the unwrap of do_move on the
\* clone, the unwrap of line 190 (no king of the mover on the clone), or the
\* assert_ne! of is_square_attacked on the king's square
post_move_panics(gs, from_pos, to_pos) ==
    \/ do_move_panics(gs, from_pos, to_pos)
    \/ \E test_state \in {do_move(gs, from_pos, to_pos)} :
           \E king \in {FindFirst(test_state, Occupied("King", gs.turn))} :
               \/ king = None
               \/ is_square_attacked_panics(test_state, Unwrap(king), Not(gs.turn))

\* lines 187-195 looking at the board before the move instead of the clone
leaves_king_attacked_on_old_board(gs, from_pos, to_pos) ==
    \E test_state \in {do_move(gs, from_pos, to_pos)} :
        \E pos \in {Unwrap(FindFirst(test_state, Occupied("King", gs.turn)))} :
            is_square_attacked(gs, pos, Not(gs.turn))

\* lines 187-195 left out: no move is refused for exposing the king
leaves_king_attacked_unchecked(gs, from_pos, to_pos) == FALSE

\* is_legal 187-195: play the move on a clone (test_state, computed once) and
\* look at the mover's king
leaves_king_attacked(gs, from_pos, to_pos) ==
    \E test_state \in {do_move(gs, from_pos, to_pos)} :
        \E pos \in {Unwrap(FindFirst(test_state, Occupied("King", gs.turn)))} :
            is_square_attacked(test_state, pos, Not(gs.turn))

\* is_legal 187-195: the outcome once the movement rules are passed
post_move_outcome(gs, from_pos, to_pos) ==
    IF post_move_panics(gs, from_pos, to_pos) THEN "panic"
    ELSE IF leaves_king_attacked(gs, from_pos, to_pos) THEN "false"
    ELSE "true"

\* GameState::is_legal: "true", "false", or "panic" when an index is out of
\* bounds, an assertion fails or an unwrap finds nothing
is_legal_outcome(gs, from_pos, to_pos) ==
    IF ~OnBoard(from_pos) THEN "panic"
    ELSE IF ~is_legal_start(gs, from_pos) THEN "false"
    ELSE IF ~OnBoard(to_pos) THEN "panic"
    ELSE IF is_legal_start(gs, to_pos) THEN "false"
    ELSE IF is_attacking_movement_ok_panics(gs, from_pos, to_pos) THEN "panic"
    ELSE IF is_attacking_movement_ok(gs, from_pos, to_pos, FALSE)
         THEN post_move_outcome(gs, from_pos, to_pos)
    ELSE IF could_be_legal_panics(gs, from_pos, to_pos) THEN "panic"
    ELSE IF ~could_be_legal(gs, from_pos, to_pos) THEN "false"
    ELSE post_move_outcome(gs, from_pos, to_pos)

\* GameState::is_legal returned true
is_legal(gs, from_pos, to_pos) == is_legal_outcome(gs, from_pos, to_pos) = "true"

\* is_checkmate 366-367 without the assignment: the turn stays as it was
defender_state_turn_kept(gs, attacker) == gs

\* GameState::is_checkmate 366-367: the state is_legal is asked on, with the
\* defender to move
defender_state(gs, attacker) == [gs EXCEPT !.turn = Not(attacker)]

\* is_checkmate 369-381 visits the defender's pieces in piece_iterator order
\* and, for each, the targets x = 0..63 in order; n numbers these calls
EscapeFrom(n) == IterPos(n \div 64)
EscapeTo(n) == IterPos(n % 64)

\* the calls of is_legal in that loop that do not return false
EscapeHits(gs, attacker) ==
    {n \in 0..4095 :
        /\ IsOccupied(At(gs, EscapeFrom(n)))
        /\ At(gs, EscapeFrom(n)).color # attacker
        /\ is_legal_outcome(defender_state(gs, attacker), EscapeFrom(n), EscapeTo(n)) # "false"}

\* GameState::is_checkmate: "true", "false", or "panic"
is_checkmate_outcome(gs, attacker) ==
    LET king == FindFirst(gs, Occupied("King", Not(attacker))) IN
    IF king = None THEN "panic"
    ELSE IF ~is_square_attacked(gs, Unwrap(king), attacker) THEN "false"
    ELSE LET hits == EscapeHits(gs, attacker) IN
         IF hits = {} THEN "true"
         ELSE LET n == CHOOSE h \in hits : \A g \in hits : h <= g IN
              IF is_legal_outcome(defender_state(gs, attacker), EscapeFrom(n), EscapeTo(n))
                     = "panic"
              THEN "panic"
              ELSE "false"

\* is_checkmate with return false in place of break 'outer (line 377): the
\* turn is put back only when the enumeration runs to its end
turn_after_search_unless_escape(searched, old_turn, is_mate) ==
    IF is_mate THEN old_turn ELSE searched.turn

\* is_checkmate 382: self.turn = old_turn, reached from the end of the
\* enumeration and from break 'outer alike
turn_after_search(searched, old_turn, is_mate) == old_turn

\* GameState::is_checkmate: the state it leaves behind when it returns
is_checkmate_leaves(gs, attacker) ==
    LET king == FindFirst(gs, Occupied("King", Not(attacker))) IN
    IF ~is_square_attacked(gs, Unwrap(king), attacker) THEN gs
    ELSE LET old_turn == gs.turn
             searched == defender_state(gs, attacker)
             is_mate == EscapeHits(gs, attacker) = {}
         IN [searched EXCEPT !.turn = turn_after_search(searched, old_turn, is_mate)]

\* Board::is_checkmated asking with the side to move as the attacker
is_checkmated_outcome_about_mover(gs) == is_checkmate_outcome(gs, gs.turn)

\* Board::is_checkmated
is_checkmated_outcome(gs) == is_checkmate_outcome(gs, Not(gs.turn))

-----------------------------------------------------------------------------
(* The players' choices.  The click source may deliver any pair of squares;   *)
(* the model lets the players follow one of a few opening lines (each move    *)
(* still goes through is_legal and do_move) and then choose any pair of       *)
(* squares for a bounded number of further moves.  A move is <<from, to>>.    *)

\* no opening line: free choice from the first move
LineStart == <<>>

\* 1. f3 e5 2. g4 Qh4#
LineFoolsMate ==
    << <<<<5, 6>>, <<5, 5>>>>,
       <<<<4, 1>>, <<4, 3>>>>,
       <<<<6, 6>>, <<6, 4>>>>,
       <<<<3, 0>>, <<7, 4>>>> >>

\* 1. e4 a6 2. e5 d5 (exd6 e.p. is now possible)
LineEnPassant ==
    << <<<<4, 6>>, <<4, 4>>>>,
       <<<<0, 1>>, <<0, 2>>>>,
       <<<<4, 4>>, <<4, 3>>>>,
       <<<<3, 1>>, <<3, 3>>>> >>

\* 1. e4 e5 2. Nf3 Nc6 3. Bc4 Bc5 (White may castle short)
LineItalian ==
    << <<<<4, 6>>, <<4, 4>>>>,
       <<<<4, 1>>, <<4, 3>>>>,
       <<<<6, 7>>, <<5, 5>>>>,
       <<<<1, 0>>, <<2, 2>>>>,
       <<<<5, 7>>, <<2, 4>>>>,
       <<<<5, 0>>, <<2, 3>>>> >>

\* 1. g3 b6 2. Bg2 Ba6 3. Nf3 e6 4. e4 h6 (Ba6 attacks f1)
LineTransit ==
    << <<<<6, 6>>, <<6, 5>>>>,
       <<<<1, 1>>, <<1, 2>>>>,
       <<<<5, 7>>, <<6, 6>>>>,
       <<<<2, 0>>, <<0, 2>>>>,
       <<<<6, 7>>, <<5, 5>>>>,
       <<<<4, 1>>, <<4, 2>>>>,
       <<<<4, 6>>, <<4, 4>>>>,
       <<<<7, 1>>, <<7, 2>>>> >>

\* 1. f4 e5 2. Nf3 Bc5 3. g3 d6 4. Bg2 h6 (Bc5 attacks g1)
LineLanding ==
    << <<<<5, 6>>, <<5, 4>>>>,
       <<<<4, 1>>, <<4, 3>>>>,
       <<<<6, 7>>, <<5, 5>>>>,
       <<<<5, 0>>, <<2, 3>>>>,
       <<<<6, 6>>, <<6, 5>>>>,
       <<<<3, 1>>, <<3, 2>>>>,
       <<<<5, 7>>, <<6, 6>>>>,
       <<<<7, 1>>, <<7, 2>>>> >>

\* 1. e4 e5 2. Nf3 Nc6 3. Bc4 Nf6 4. d3 Bb4+ (White is in check)
LineCheck ==
    << <<<<4, 6>>, <<4, 4>>>>,
       <<<<4, 1>>, <<4, 3>>>>,
       <<<<6, 7>>, <<5, 5>>>>,
       <<<<1, 0>>, <<2, 2>>>>,
       <<<<5, 7>>, <<2, 4>>>>,
       <<<<6, 0>>, <<5, 2>>>>,
       <<<<3, 6>>, <<3, 5>>>>,
       <<<<5, 0>>, <<1, 4>>>> >>

\* 1. e4 e5 2. Nf3 d6 3. Bb5+ Nc6 4. a3 (the knight on c6 is pinned)
LinePin ==
    << <<<<4, 6>>, <<4, 4>>>>,
       <<<<4, 1>>, <<4, 3>>>>,
       <<<<6, 7>>, <<5, 5>>>>,
       <<<<3, 1>>, <<3, 2>>>>,
       <<<<5, 7>>, <<1, 3>>>>,
       <<<<1, 0>>, <<2, 2>>>>,
       <<<<0, 6>>, <<0, 5>>>> >>

\* 1. g4 b6 2. Bg2 Bb7 3. Nh3 Bxg2 4. a4 Bxh1 (the h1 rook is captured at home)
LineRookTaken ==
    << <<<<6, 6>>, <<6, 4>>>>,
       <<<<1, 1>>, <<1, 2>>>>,
       <<<<5, 7>>, <<6, 6>>>>,
       <<<<2, 0>>, <<1, 1>>>>,
       <<<<6, 7>>, <<7, 5>>>>,
       <<<<1, 1>>, <<6, 6>>>>,
       <<<<0, 6>>, <<0, 4>>>>,
       <<<<6, 6>>, <<7, 7>>>> >>

\* LineRookTaken, then 5. Ra3 a6 6. Rg3 a5 7. Rg1 e6 8. Rxh1 d6 (the a1 rook stands on h1)
LineRookSwap ==
    << <<<<6, 6>>, <<6, 4>>>>,
       <<<<1, 1>>, <<1, 2>>>>,
       <<<<5, 7>>, <<6, 6>>>>,
       <<<<2, 0>>, <<1, 1>>>>,
       <<<<6, 7>>, <<7, 5>>>>,
       <<<<1, 1>>, <<6, 6>>>>,
       <<<<0, 6>>, <<0, 4>>>>,
       <<<<6, 6>>, <<7, 7>>>>,
       <<<<0, 7>>, <<0, 5>>>>,
       <<<<0, 1>>, <<0, 2>>>>,
       <<<<0, 5>>, <<6, 5>>>>,
       <<<<0, 2>>, <<0, 3>>>>,
       <<<<6, 5>>, <<6, 7>>>>,
       <<<<4, 1>>, <<4, 2>>>>,
       <<<<6, 7>>, <<7, 7>>>>,
       <<<<3, 1>>, <<3, 2>>>> >>

\* 1. Nf3 a6 (the knight stands in front of the f2 pawn)
LineKnightF3 ==
    << <<<<6, 7>>, <<5, 5>>>>,
       <<<<0, 1>>, <<0, 2>>>> >>

\* 1. e4 a6 2. e5 d5 3. a3 h6 (the en-passant chance has passed)
LineEnPassantLate ==
    << <<<<4, 6>>, <<4, 4>>>>,
       <<<<0, 1>>, <<0, 2>>>>,
       <<<<4, 4>>, <<4, 3>>>>,
       <<<<3, 1>>, <<3, 3>>>>,
       <<<<0, 6>>, <<0, 5>>>>,
       <<<<7, 1>>, <<7, 2>>>> >>

\* LineCheck, then White clicks 5. a3, which leaves the king in check, and Black
\* clicks Bxe1 (is_legal rejects 5. a3, so the line ends there)
LineIgnoreCheck ==
    << <<<<4, 6>>, <<4, 4>>>>,
       <<<<4, 1>>, <<4, 3>>>>,
       <<<<6, 7>>, <<5, 5>>>>,
       <<<<1, 0>>, <<2, 2>>>>,
       <<<<5, 7>>, <<2, 4>>>>,
       <<<<6, 0>>, <<5, 2>>>>,
       <<<<3, 6>>, <<3, 5>>>>,
       <<<<5, 0>>, <<1, 4>>>>,
       <<<<0, 6>>, <<0, 5>>>>,
       <<<<1, 4>>, <<4, 7>>>> >>

\* 1. d4 d5 2. Nc3 Nc6 3. Bf4 Bf5 4. Qd2 Qd7 (White may castle long)
LineWhiteLong ==
    << <<<<3, 6>>, <<3, 4>>>>,
       <<<<3, 1>>, <<3, 3>>>>,
       <<<<1, 7>>, <<2, 5>>>>,
       <<<<1, 0>>, <<2, 2>>>>,
       <<<<2, 7>>, <<5, 4>>>>,
       <<<<2, 0>>, <<5, 3>>>>,
       <<<<3, 7>>, <<3, 6>>>>,
       <<<<3, 0>>, <<3, 1>>>> >>

\* LineWhiteLong, then 5. a3 (Black may castle long)
LineBlackLong == LineWhiteLong \o << <<<<0, 6>>, <<0, 5>>>> >>

\* 1. e4 e5 2. Nf3 Nf6 3. Bc4 Bc5 4. d3 (Black may castle short)
LineBlackShort ==
    << <<<<4, 6>>, <<4, 4>>>>,
       <<<<4, 1>>, <<4, 3>>>>,
       <<<<6, 7>>, <<5, 5>>>>,
       <<<<6, 0>>, <<5, 2>>>>,
       <<<<5, 7>>, <<2, 4>>>>,
       <<<<5, 0>>, <<2, 3>>>>,
       <<<<3, 6>>, <<3, 5>>>> >>

\* 1. a3 d5 2. a4 d4 3. e4 (dxe3 e.p. is now possible for Black)
LineEnPassantBlack ==
    << <<<<0, 6>>, <<0, 5>>>>,
       <<<<3, 1>>, <<3, 3>>>>,
       <<<<0, 5>>, <<0, 4>>>>,
       <<<<3, 3>>, <<3, 4>>>>,
       <<<<4, 6>>, <<4, 4>>>> >>

Book == << LineStart,
          LineFoolsMate,
          LineEnPassant,
          LineItalian,
          LineTransit,
          LineLanding,
          LineCheck,
          LinePin,
          LineRookTaken,
          LineRookSwap,
          LineKnightF3,
          LineEnPassantLate,
          LineIgnoreCheck,
          LineWhiteLong,
          LineBlackLong,
          LineBlackShort,
          LineEnPassantBlack >>

Lines == DOMAIN Book

\* the pair of squares the players may choose next: the line's move while the
\* line lasts, any pair afterwards (at most maxFree times)
Chosen(from_pos, to_pos, maxFree) ==
    IF ply < Len(Book[line])
    THEN <<from_pos, to_pos>> = Book[line][ply + 1]
    ELSE free < maxFree

FreeAfter == IF ply < Len(Book[line]) THEN free ELSE free + 1

(* The three kinds of run share the variables; a run leaves the others idle. *)

NoQuery == [asked |-> FALSE]

PeerIds == {"listener", "connector"}

NoneSent == [p \in PeerIds |-> [Move |-> 0, AckMove |-> 0, RejMove |-> 0]]

\* no session is running
SessionIdle ==
    /\ peer = [p \in PeerIds |-> [state |-> "Idle"]]
    /\ chan = [p \in PeerIds |-> <<>>]
    /\ sent = NoneSent

\* no engine run is going on
EngineIdle ==
    /\ game = GameStateNew
    /\ moved = {}
    /\ last = None
    /\ crashed = FALSE

-----------------------------------------------------------------------------
(* Wire protocol: net_chess.rs 15-27, 70-129.  A stream is a sequence of      *)
(* bytes; a packet is a record with its kind.                                 *)

Byte == 0..255

PacketMove(bp1, bp2) == [kind |-> "Move", bp1 |-> bp1, bp2 |-> bp2]
PacketAckMove == [kind |-> "AckMove"]
PacketRejMove == [kind |-> "RejMove"]

\* BoardPosition::serialize writing self.1 before self.0
position_serialize_swapped(pos) == <<pos[2] % 256, pos[1] % 256>>

\* BoardPosition::serialize: two bytes, self.0 as u8 and self.1 as u8
position_serialize(pos) == <<pos[1] % 256, pos[2] % 256>>

\* BoardPosition::deserialize filling the position from buf[1], buf[0]
position_deserialize_swapped(bytes) == <<bytes[2], bytes[1]>>

\* BoardPosition::deserialize from the first two bytes of bytes
position_deserialize(bytes) == <<bytes[1], bytes[2]>>

\* Packet::serialize: the bytes written to the stream
packet_serialize(p) ==
    CASE p.kind = "Move" -> <<0>> \o position_serialize(p.bp1) \o position_serialize(p.bp2)
      [] p.kind = "AckMove" -> <<1>>
      [] p.kind = "RejMove" -> <<2>>

\* the number of bytes Packet::deserialize reads when the stream starts with tag
packet_len(tag) == IF tag = 0 THEN 5 ELSE 1

\* read_exact can return: the stream holds every byte Packet::deserialize wants
packet_ready(bytes) == Len(bytes) >= 1 /\ Len(bytes) >= packet_len(bytes[1])

\* Packet::deserialize with the arm of tag 1 as the catch-all arm
packet_deserialize_lenient(bytes) ==
    CASE bytes[1] = 0 ->
           PacketMove(position_deserialize(SubSeq(bytes, 2, 3)),
                      position_deserialize(SubSeq(bytes, 4, 5)))
      [] bytes[1] = 2 -> PacketRejMove
      [] OTHER -> PacketAckMove

\* Packet::deserialize: the packet read, or the BadPacketError
packet_deserialize(bytes) ==
    CASE bytes[1] = 0 ->
           PacketMove(position_deserialize(SubSeq(bytes, 2, 3)),
                      position_deserialize(SubSeq(bytes, 4, 5)))
      [] bytes[1] = 1 -> PacketAckMove
      [] bytes[1] = 2 -> PacketRejMove
      [] OTHER -> [kind |-> "BadPacketError"]

\* the stream after Packet::deserialize
packet_rest(bytes) == SubSeq(bytes, packet_len(bytes[1]) + 1, Len(bytes))

-----------------------------------------------------------------------------
(* Session state machine: net_chess.rs 200-329.  peer[p].state is the         *)
(* ChessState object whose next() runs; "Failed" is a process that ended by   *)
(* a panic or an error returned from next().                                  *)

Other(p) == IF p = "listener" THEN "connector" ELSE "listener"

NoMove == <<>>

\* both processes start as run_server does
StartState_both_first(p) == "MyMove"

\* run_server: the listener's first state; run_client: the connector's
StartState(p) == IF p = "listener" THEN "MyMove" ELSE "OtherMove"

Init ==
    /\ peer = [p \in PeerIds |->
                 [state |-> StartState(p), sent_move |-> FALSE,
                  board |-> setup_new_game, next_move |-> NoMove]]
    /\ chan = [p \in PeerIds |-> <<>>]
    /\ sent = NoneSent
    /\ line \in Lines
    /\ ply = 0
    /\ free = 0
    /\ query = NoQuery
    /\ EngineIdle

Send(p, packet) ==
    /\ chan' = [chan EXCEPT ![Other(p)] = @ \o packet_serialize(packet)]
    /\ sent' = [sent EXCEPT ![p][packet.kind] = @ + 1]

\* MyMove::next, one turn of its loop: two clicks on the board
MyMoveClicks(p, bp1, bp2) ==
    /\ peer[p].state = "MyMove"
    /\ Chosen(bp1, bp2, MaxFreeNet)
    /\ is_legal_start(peer[p].board, bp1)
    /\ \E outcome \in {is_legal_outcome(peer[p].board, bp1, bp2)} :
       CASE outcome = "true" ->
              /\ peer' = [peer EXCEPT ![p].state = "AwaitAck",
                                      ![p].sent_move = FALSE,
                                      ![p].next_move = <<bp1, bp2>>]
              /\ ply' = ply + 1
              /\ free' = FreeAfter
         [] outcome = "false" ->
              UNCHANGED <<peer, ply, free>>
         [] outcome = "panic" ->
              /\ peer' = [peer EXCEPT ![p].state = "Failed"]
              /\ UNCHANGED <<ply, free>>
    /\ UNCHANGED <<chan, sent, line, query, game, moved, last, crashed>>

\* MyMove::next, the first click is not on a piece of the side to move: continue
MyMoveContinue(p, bp1) ==
    /\ peer[p].state = "MyMove"
    /\ ply >= Len(Book[line]) /\ free < MaxFreeNet
    /\ ~is_legal_start(peer[p].board, bp1)
    /\ UNCHANGED vars

\* AwaitAck::next, before its loop: the Move packet is written
AwaitAckSend(p) ==
    /\ peer[p].state = "AwaitAck"
    /\ ~peer[p].sent_move
    /\ Send(p, PacketMove(peer[p].next_move[1], peer[p].next_move[2]))
    /\ peer' = [peer EXCEPT ![p].sent_move = TRUE]
    /\ UNCHANGED <<line, ply, free, query, game, moved, last, crashed>>

\* AwaitAck::next without line 252: the acknowledged move is not applied
AckedBoard_kept(gs, mv) == gs

\* the board of the peer whose move was acknowledged (AwaitAck::next 252)
AckedBoard(gs, mv) == do_move(gs, mv[1], mv[2])

\* AwaitAck::next 254 returning the state it came from
AckedState_MyMove == "MyMove"

\* the state that follows an acknowledged move (AwaitAck::next 254)
AckedState == "OtherMove"

\* AwaitAck::next 256-259 asking for another move after a rejection
RejectedState_MyMove == "MyMove"

\* the state after a RejMove (AwaitAck::next 256-259): panic!
RejectedState == "Failed"

\* the _ arms (AwaitAck::next 260, OtherMove::next 287) returning MyMove
DiscardedState_MyMove(state) == "MyMove"

\* the state after a packet that falls to the _ arm of the match
\* (AwaitAck::next 260, OtherMove::next 287): the loop goes on
DiscardedState(state) == state

\* AwaitAck::next, one turn of its loop: a packet is read
AwaitAckRecv(p) ==
    /\ peer[p].state = "AwaitAck"
    /\ peer[p].sent_move
    /\ packet_ready(chan[p])
    /\ chan' = [chan EXCEPT ![p] = packet_rest(@)]
    /\ LET next_packet == packet_deserialize(chan[p]) IN
       CASE next_packet.kind = "AckMove" ->
              peer' = [peer EXCEPT ![p].state = AckedState,
                                   ![p].board = AckedBoard(@, peer[p].next_move)]
         [] next_packet.kind = "RejMove" ->
              peer' = [peer EXCEPT ![p].state = RejectedState]
         [] next_packet.kind = "BadPacketError" ->
              peer' = [peer EXCEPT ![p].state = "Failed"]
         [] OTHER -> peer' = [peer EXCEPT ![p].state = DiscardedState(@)]
    /\ UNCHANGED <<sent, line, ply, free, query, game, moved, last, crashed>>

\* OtherMove::next without line 279: the accepted move is not applied
AcceptedBoard_not_applied(gs, bp1, bp2) == gs

\* the board of the peer that accepted a move (OtherMove::next 279)
AcceptedBoard(gs, bp1, bp2) == do_move(gs, bp1, bp2)

\* OtherMove::next, one turn of its loop: a packet is read
OtherMoveRecv(p) ==
    /\ peer[p].state = "OtherMove"
    /\ packet_ready(chan[p])
    /\ LET next_packet == packet_deserialize(chan[p])
           rest == [chan EXCEPT ![p] = packet_rest(@)]
       IN CASE next_packet.kind = "Move" ->
                 LET outcome == is_legal_outcome(peer[p].board, next_packet.bp1,
                                                 next_packet.bp2)
                 IN (CASE outcome = "true" ->
                           /\ chan' = [rest EXCEPT ![Other(p)] =
                                          @ \o packet_serialize(PacketAckMove)]
                           /\ sent' = [sent EXCEPT ![p].AckMove = @ + 1]
                           /\ peer' = [peer EXCEPT
                                         ![p].state = "MyMove",
                                         ![p].board = AcceptedBoard(@, next_packet.bp1,
                                                                    next_packet.bp2)]
                      [] outcome = "false" ->
                           /\ chan' = [rest EXCEPT ![Other(p)] =
                                          @ \o packet_serialize(PacketRejMove)]
                           /\ sent' = [sent EXCEPT ![p].RejMove = @ + 1]
                           /\ UNCHANGED peer
                      [] outcome = "panic" ->
                           /\ chan' = rest
                           /\ peer' = [peer EXCEPT ![p].state = "Failed"]
                           /\ UNCHANGED sent)
            [] next_packet.kind = "BadPacketError" ->
                 /\ chan' = rest
                 /\ peer' = [peer EXCEPT ![p].state = "Failed"]
                 /\ UNCHANGED sent
            [] OTHER ->
                 /\ chan' = rest
                 /\ peer' = [peer EXCEPT ![p].state = DiscardedState(@)]
                 /\ UNCHANGED sent
    /\ UNCHANGED <<line, ply, free, query, game, moved, last, crashed>>

\* a blocking read fails: the other process has ended and its stream is drained
ReadFails(p) ==
    /\ \/ peer[p].state = "OtherMove"
       \/ peer[p].state = "AwaitAck" /\ peer[p].sent_move
    /\ peer[Other(p)].state = "Failed"
    /\ chan[p] = <<>>
    /\ peer' = [peer EXCEPT ![p].state = "Failed"]
    /\ UNCHANGED <<chan, sent, line, ply, free, query, game, moved, last, crashed>>

Next ==
    \E p \in PeerIds :
        \/ \E bp1 \in Positions, bp2 \in Positions : MyMoveClicks(p, bp1, bp2)
        \/ \E bp1 \in Positions : MyMoveContinue(p, bp1)
        \/ AwaitAckSend(p)
        \/ AwaitAckRecv(p)
        \/ OtherMoveRecv(p)
        \/ ReadFails(p)

Spec == Init /\ [][Next]_vars

\* A process blocked in a read goes on once the bytes it waits for are there,
\* and a process that has to write writes.
FairSpec ==
    /\ Spec
    /\ \A p \in PeerIds :
           /\ WF_vars(AwaitAckSend(p))
           /\ WF_vars(AwaitAckRecv(p))
           /\ WF_vars(OtherMoveRecv(p))

\* the selection of p, in MyMove, passes is_legal: MyMove::next returns AwaitAck
MyMoveSelectsLegal(p) ==
    \E bp1 \in Positions, bp2 \in Positions :
        /\ MyMoveClicks(p, bp1, bp2)
        /\ peer'[p].state = "AwaitAck"

\* FairSpec with a user at each window who keeps clicking and does not leave
\* a selection that passes is_legal unmade forever
UserFairSpec ==
    /\ FairSpec
    /\ \A p \in PeerIds : WF_vars(MyMoveSelectsLegal(p))

-----------------------------------------------------------------------------
(* One peer and the stream: the process at the other end of the TcpStream is  *)
(* whatever connected (run_server accepts the first connection, run_client    *)
(* connects to the port), so the bytes a peer reads may be any bytes.  The    *)
(* remote end is peer[r] with state "Remote"; it writes whole packets.        *)

\* the values a coordinate byte written by the remote end takes: two that
\* name a file or rank, one that names none
WireCoords == {4, 6, 255}

\* e2-e4, the pawn on (4, 6) to (4, 4), as the four coordinate bytes of a Move
WireOpening == <<4, 6, 4, 4>>

\* the byte strings the remote end writes: the Move e2-e4 and every Move that
\* differs from it in one coordinate byte, an AckMove, a RejMove, and a packet
\* with a tag that is none of 0, 1, 2
RemotePackets ==
    {<<0>> \o [WireOpening EXCEPT ![i] = b] : i \in 1..4, b \in WireCoords}
        \cup {<<1>>, <<2>>, <<3>>}

\* the packets of every kind the remote end has written
Written(r) == sent[r].Move + sent[r].AckMove + sent[r].RejMove

WireInit ==
    /\ \E r \in PeerIds :
          peer = [p \in PeerIds |->
                    [state |-> IF p = r THEN "Remote" ELSE StartState(p),
                     sent_move |-> FALSE,
                     board |-> setup_new_game, next_move |-> NoMove]]
    /\ chan = [p \in PeerIds |-> <<>>]
    /\ sent = NoneSent
    /\ line = 1
    /\ ply = 0
    /\ free = 0
    /\ query = NoQuery
    /\ EngineIdle

\* the remote end writes a packet to the stream the peer reads
RemoteSend(r, bytes) ==
    /\ peer[r].state = "Remote"
    /\ peer[Other(r)].state # "Failed"
    /\ chan[Other(r)] = <<>>
    /\ Written(r) < MaxRemote
    /\ chan' = [chan EXCEPT ![Other(r)] = @ \o bytes]
    /\ sent' = IF bytes[1] \in {0, 1, 2}
               THEN [sent EXCEPT ![r][packet_deserialize(bytes).kind] = @ + 1]
               ELSE sent
    /\ UNCHANGED <<peer, line, ply, free, query, game, moved, last, crashed>>

\* the remote end closes the connection
RemoteCloses(r) ==
    /\ peer[r].state = "Remote"
    /\ peer' = [peer EXCEPT ![r].state = "Failed"]
    /\ UNCHANGED <<chan, sent, line, ply, free, query, game, moved, last, crashed>>

WireNext ==
    \/ Next
    \/ \E r \in PeerIds :
          \/ \E bytes \in RemotePackets : RemoteSend(r, bytes)
          \/ RemoteCloses(r)

SpecWire == WireInit /\ [][WireNext]_vars

-----------------------------------------------------------------------------
(* Engine runs: one GameState driven by is_legal and do_move, as MyMove and   *)
(* OtherMove drive it (net_chess.rs 233, 276-279).                            *)

\* history: the squares whose occupant has moved before, after a legal move
MovedAfter(gs, from_pos, to_pos) ==
    LET pos_diff == PosDiff(from_pos, to_pos)
        castles == At(gs, from_pos).piece = "King" /\ Abs(pos_diff[1]) = 2
        rook_x == IF pos_diff[1] < 0 THEN 0 ELSE 7
        half == IF pos_diff[1] < 0 THEN -1 ELSE 1
        gone == {from_pos} \cup {p \in Positions : IsOccupied(At(gs, p))
                                   /\ ~IsOccupied(At(do_move(gs, from_pos, to_pos), p))}
    IN ((moved \ gone) \cup {to_pos})
         \cup (IF castles THEN {<<to_pos[1] - half, to_pos[2]>>} ELSE {})

EngineInit ==
    /\ game = setup_new_game
    /\ moved = {}
    /\ last = None
    /\ crashed = FALSE
    /\ line \in Lines
    /\ ply = 0
    /\ free = 0
    /\ query = NoQuery
    /\ SessionIdle

\* One call of is_legal on a chosen pair of squares, whose first square holds
\* a piece of the side to move (MyMove::next 222), and what follows it:
\* do_move when it returned true, nothing when it returned false (the caller
\* asks again), the end of the process when it panicked.
EngineSelect(from_pos, to_pos) ==
    /\ ~crashed
    /\ Chosen(from_pos, to_pos, MaxFree)
    /\ is_legal_start(game, from_pos)
    /\ LET outcome == is_legal_outcome(game, from_pos, to_pos) IN
       CASE outcome = "true" ->
              /\ game' = do_move(game, from_pos, to_pos)
              /\ moved' = MovedAfter(game, from_pos, to_pos)
              /\ last' = Some([from |-> from_pos, to |-> to_pos, sq |-> At(game, from_pos)])
              /\ ply' = ply + 1
              /\ free' = FreeAfter
              /\ UNCHANGED crashed
         [] outcome = "false" ->
              UNCHANGED <<game, moved, last, ply, free, crashed>>
         [] outcome = "panic" ->
              /\ crashed' = TRUE
              /\ UNCHANGED <<game, moved, last, ply, free>>
    /\ UNCHANGED <<line, peer, chan, sent, query>>

EngineNext ==
    \E from_pos \in Positions, to_pos \in Positions : EngineSelect(from_pos, to_pos)

SpecEngine == EngineInit /\ [][EngineNext]_vars

-----------------------------------------------------------------------------
(* Checkmate-query runs: a position set up with setup_set_game, as           *)
(* tests::test_checkmate does, and one query on it (chess.rs 519-528).       *)

\* "R...k...R.......K" followed by dots, with the black king on file kx of
\* rank 0 and the character x in place of the second rook
corner_state(kx, x) ==
    [i \in 1..64 |-> CASE i = 1 -> "R"
                       [] i = kx + 1 -> "k"
                       [] i = 9 -> x
                       [] i = 17 -> "K"
                       [] OTHER -> "."]

\* the position after 1. f3 e5 2. g4 Qh4, as a setup string
fools_mate_state ==
    << "r","n","b",".","k","b","n","r",
       "p","p","p","p",".","p","p","p",
       ".",".",".",".",".",".",".",".",
       ".",".",".",".","p",".",".",".",
       ".",".",".",".",".",".","P","q",
       ".",".",".",".",".","P",".",".",
       "P","P","P","P","P",".",".","P",
       "R","N","B","Q","K","B","N","R" >>

\* the positions the queries are asked on
QueryStates ==
    {setup_set_game(corner_state(kx, x), t, FALSE, FALSE, FALSE, FALSE, None) :
        kx \in 1..7, x \in {"R", "B", "Q", "N", "."}, t \in Color}
      \cup {setup_set_game(fools_mate_state, t, TRUE, TRUE, TRUE, TRUE, None) : t \in Color}

MateInit ==
    /\ query \in {[asked |-> FALSE, gs |-> g] : g \in QueryStates}
    /\ line = 1
    /\ ply = 0
    /\ free = 0
    /\ EngineIdle
    /\ SessionIdle

\* gs.is_checkmate(attacker)
QueryIsCheckmate(attacker) ==
    /\ ~query.asked
    /\ query' = [asked |-> TRUE, gs |-> query.gs, call |-> "is_checkmate",
                 attacker |-> attacker,
                 result |-> is_checkmate_outcome(query.gs, attacker),
                 leaves |-> is_checkmate_leaves(query.gs, attacker)]
    /\ UNCHANGED <<game, moved, last, crashed, peer, chan, sent, line, ply, free>>

\* board.is_checkmated()
QueryIsCheckmated ==
    /\ ~query.asked
    /\ query' = [asked |-> TRUE, gs |-> query.gs, call |-> "is_checkmated",
                 attacker |-> Not(query.gs.turn),
                 result |-> is_checkmated_outcome(query.gs),
                 leaves |-> is_checkmate_leaves(query.gs, Not(query.gs.turn))]
    /\ UNCHANGED <<game, moved, last, crashed, peer, chan, sent, line, ply, free>>

MateNext ==
    \/ \E attacker \in Color : QueryIsCheckmate(attacker)
    \/ QueryIsCheckmated

SpecMate == MateInit /\ [][MateNext]_vars

-----------------------------------------------------------------------------
(* Packet runs: one packet written to a stream by Packet::serialize and read  *)
(* back by Packet::deserialize (net_chess.rs 86-129), with the bytes of       *)
(* later packets behind it.                                                   *)

\* the Packet values with positions on the board
Packets ==
    {PacketMove(bp1, bp2) : bp1 \in Positions, bp2 \in Positions}
        \cup {PacketAckMove, PacketRejMove}

\* what is written to the stream after the packet
LaterBytes == {<<>>, <<1>>, <<0, 4, 6, 4, 4>>, <<2, 0>>}

CodecInit ==
    /\ query \in {[stage |-> "made", packet |-> p, later |-> t, stream |-> <<>>] :
                     p \in Packets, t \in LaterBytes}
    /\ line = 1
    /\ ply = 0
    /\ free = 0
    /\ EngineIdle
    /\ SessionIdle

\* packet.serialize(&mut stream), then the later writes
PacketWrite ==
    /\ query.stage = "made"
    /\ query' = [stage |-> "written", packet |-> query.packet, later |-> query.later,
                 bytes |-> packet_serialize(query.packet),
                 stream |-> query.stream \o packet_serialize(query.packet) \o query.later]
    /\ UNCHANGED <<game, moved, last, crashed, peer, chan, sent, line, ply, free>>

\* Packet::deserialize(&mut stream)
PacketRead ==
    /\ query.stage = "written"
    /\ packet_ready(query.stream)
    /\ query' = [stage |-> "read", packet |-> query.packet, later |-> query.later,
                 bytes |-> query.bytes,
                 decoded |-> packet_deserialize(query.stream),
                 stream |-> packet_rest(query.stream)]
    /\ UNCHANGED <<game, moved, last, crashed, peer, chan, sent, line, ply, free>>

CodecNext == PacketWrite \/ PacketRead

SpecCodec == CodecInit /\ [][CodecNext]_vars

-----------------------------------------------------------------------------
(* Sieve runs: lib.rs 12-24, executed one loop turn at a time.  The vector    *)
(* sieve is a sequence; the element the code names sieve[x] is the element    *)
(* x + 1 of the sequence.                                                     *)

\* (upto as f64).sqrt() as usize: the integer part of the square root
sqrt_as_usize(upto) == CHOOSE k \in 0..upto : k * k <= upto /\ (k + 1) * (k + 1) > upto

\* the index x is inside the vector v
InVec(v, x) == x >= 0 /\ x < Len(v)

\* the inner loop's test with < in place of <=
while_continues_strict(j, upto) == j < upto

\* the inner loop's test (line 17)
while_continues(j, upto) == j <= upto

\* vec![true; upto - 1]
sieve_new(upto) == [k \in 1..(upto - 1) |-> TRUE]

\* the values i + 2 of the indices i whose element is true, in order
RECURSIVE sieve_collect(_, _)
sieve_collect(v, k) ==
    IF k > Len(v) THEN <<>>
    ELSE (IF v[k] THEN <<(k - 1) + 2>> ELSE <<>>) \o sieve_collect(v, k + 1)

SieveInit ==
    /\ query \in {[call |-> "sieve_upto", upto |-> n, pc |-> "for", i |-> 2, j |-> 0,
                    sieve |-> sieve_new(n), result |-> <<>>] : n \in 1..MaxUpto}
    /\ line = 1
    /\ ply = 0
    /\ free = 0
    /\ EngineIdle
    /\ SessionIdle

\* one turn of the outer loop's head (lines 14-16)
SieveFor ==
    /\ query.pc = "for"
    /\ query' =
         IF query.i < sqrt_as_usize(query.upto) + 1
         THEN IF ~InVec(query.sieve, query.i - 2)
              THEN [query EXCEPT !.pc = "panic"]
              ELSE IF query.sieve[(query.i - 2) + 1]
                   THEN [query EXCEPT !.pc = "while", !.j = query.i * 2]
                   ELSE [query EXCEPT !.i = @ + 1]
         ELSE [query EXCEPT !.pc = "collect"]
    /\ UNCHANGED <<game, moved, last, crashed, peer, chan, sent, line, ply, free>>

\* one turn of the inner loop (lines 17-20)
SieveWhile ==
    /\ query.pc = "while"
    /\ query' =
         IF while_continues(query.j, query.upto)
         THEN IF ~InVec(query.sieve, query.j - 2)
              THEN [query EXCEPT !.pc = "panic"]
              ELSE [query EXCEPT !.sieve[(query.j - 2) + 1] = FALSE, !.j = @ + query.i]
         ELSE [query EXCEPT !.pc = "for", !.i = @ + 1]
    /\ UNCHANGED <<game, moved, last, crashed, peer, chan, sent, line, ply, free>>

\* line 23: the result
SieveCollect ==
    /\ query.pc = "collect"
    /\ query' = [query EXCEPT !.pc = "done", !.result = sieve_collect(query.sieve, 1)]
    /\ UNCHANGED <<game, moved, last, crashed, peer, chan, sent, line, ply, free>>

SieveNext == SieveFor \/ SieveWhile \/ SieveCollect

SpecSieve == SieveInit /\ [][SieveNext]_vars

-----------------------------------------------------------------------------
(* Graph runs: graph.rs 16-51 on an EdgeListGraph, executed one turn of the   *)
(* inner loop at a time.  Vertices are 0..sz-1; edges is a sequence whose     *)
(* element v + 1 is the list the code names edges[v].                         *)

\* the sequences over S of length at most n
SeqsUpTo(S, n) == UNION {[1..k -> S] : k \in 0..n}

\* the edge lists EdgeListGraph::make accepts for sz vertices: every
\* endpoint is below sz
EdgeLists(sz) == [1..sz -> SeqsUpTo(0..(sz - 1), MaxOut)]

\* the position in vertices (0-based) of the first vertex at or after pos
\* that is not visited, or sz when there is none (the scan of lines 38-43)
RECURSIVE next_unvisited(_, _, _)
next_unvisited(visited, pos, sz) ==
    IF pos >= sz THEN sz
    ELSE IF ~visited[pos] THEN pos
    ELSE next_unvisited(visited, pos + 1, sz)

\* is_tree up to the first vx_iter.next(): the state at the head of the
\* while let loop
GraphInit ==
    /\ query \in {[call |-> "is_tree", edges |-> el,
                    visited |-> [v \in 0..(Len(el) - 1) |-> FALSE],
                    unvisited |-> Len(el),
                    vx_iter |-> IF Len(el) > 0 THEN 1 ELSE 0,
                    next_to_touch |-> IF Len(el) > 0 THEN <<0>> ELSE <<>>,
                    pc |-> IF Len(el) > 0 THEN "loop" ELSE "done",
                    result |-> TRUE] :
                       el \in UNION {EdgeLists(sz) : sz \in 0..MaxVertices}}
    /\ line = 1
    /\ ply = 0
    /\ free = 0
    /\ EngineIdle
    /\ SessionIdle

\* lines 25-33: the next vertex of next_to_touch is touched
GraphTouch ==
    /\ query.pc = "loop"
    /\ query.next_to_touch # <<>>
    /\ LET v == Head(query.next_to_touch) IN
       query' =
         IF query.visited[v]
         THEN [query EXCEPT !.pc = "done", !.result = FALSE]
         ELSE [query EXCEPT !.unvisited = @ - 1,
                            !.next_to_touch = Tail(@) \o query.edges[v + 1],
                            !.visited[v] = TRUE]
    /\ UNCHANGED <<game, moved, last, crashed, peer, chan, sent, line, ply, free>>

\* lines 34-49: next_to_touch is exhausted; a new root is looked for
GraphNextRoot ==
    /\ query.pc = "loop"
    /\ query.next_to_touch = <<>>
    /\ LET sz == Len(query.edges)
           found == next_unvisited(query.visited, query.vx_iter, sz)
       IN query' =
            IF query.unvisited > 0
            THEN IF found < sz
                 THEN [query EXCEPT !.vx_iter = found + 1, !.next_to_touch = <<found>>]
                 ELSE [query EXCEPT !.pc = "panic"]
            ELSE [query EXCEPT !.pc = "done", !.result = TRUE]
    /\ UNCHANGED <<game, moved, last, crashed, peer, chan, sent, line, ply, free>>

GraphNext == GraphTouch \/ GraphNextRoot

SpecGraph == GraphInit /\ [][GraphNext]_vars

-----------------------------------------------------------------------------
(* The rules of chess the claims refer to, stated without the engine's code.  *)

RookDirs == {<<1, 0>>, <<-1, 0>>, <<0, 1>>, <<0, -1>>}
BishopDirs == {<<1, 1>>, <<1, -1>>, <<-1, 1>>, <<-1, -1>>}

\* to_pos lies on a ray from from_pos in a direction of dirs, nothing in between
RefRay(gs, from_pos, to_pos, dirs) ==
    \E d \in dirs, n \in 1..7 :
        /\ to_pos = <<from_pos[1] + n * d[1], from_pos[2] + n * d[2]>>
        /\ \A k \in 1..(n - 1) :
               At(gs, <<from_pos[1] + k * d[1], from_pos[2] + k * d[2]>>) = Empty

\* forward for a pawn: decreasing rank index for White, increasing for Black
Forward(c) == IF c = White THEN -1 ELSE 1

\* the piece on from_pos attacks the square to_pos
RefAttacks(gs, from_pos, to_pos) ==
    LET sq == At(gs, from_pos)
        dx == Abs(to_pos[1] - from_pos[1])
        dy == Abs(to_pos[2] - from_pos[2])
    IN CASE sq.piece = "Knight" -> {dx, dy} = {1, 2}
         [] sq.piece = "King" -> dx <= 1 /\ dy <= 1 /\ dx + dy > 0
         [] sq.piece = "Rook" -> RefRay(gs, from_pos, to_pos, RookDirs)
         [] sq.piece = "Bishop" -> RefRay(gs, from_pos, to_pos, BishopDirs)
         [] sq.piece = "Queen" -> RefRay(gs, from_pos, to_pos, RookDirs \cup BishopDirs)
         [] sq.piece = "Pawn" -> dx = 1 /\ to_pos[2] - from_pos[2] = Forward(sq.color)
         [] OTHER -> FALSE

\* some piece of colour by attacks pos
RefAttacked(gs, pos, by) ==
    \E p \in Positions : At(gs, p).color = by /\ RefAttacks(gs, p, pos)

\* the squares holding a king of colour c
Kings(gs, c) == {p \in Positions : At(gs, p) = Occupied("King", c)}

\* the squares holding a pawn of colour c
Pawns(gs, c) == {p \in Positions : At(gs, p).piece = "Pawn" /\ At(gs, p).color = c}

\* the squares holding a piece of colour c
Pieces(gs, c) == {p \in Positions : At(gs, p).color = c}

\* the two-square horizontal king moves of the side to move, as <<from, to>>
CastlingMoves(gs) ==
    {<<k, <<k[1] + d, k[2]>>>> : k \in Kings(gs, gs.turn), d \in {-2, 2}}
        \cap (Positions \X Positions)

\* the corner a castling move heads for
Corner(mv) == <<IF mv[2][1] < mv[1][1] THEN 0 ELSE 7, mv[1][2]>>

\* the squares strictly between the king and that corner
Between(mv) ==
    {p \in Positions : /\ p[2] = mv[1][2]
                       /\ p[1] > Min(mv[1][1], Corner(mv)[1])
                       /\ p[1] < Min(mv[1][1], Corner(mv)[1]) + Abs(mv[1][1] - Corner(mv)[1])}

\* the square the king passes over
Transit(mv) == <<(mv[1][1] + mv[2][1]) \div 2, mv[1][2]>>

-----------------------------------------------------------------------------
(* Claims about the rules engine, checked under SpecEngine *)

\* C4: whenever is_legal(from, to) returns true, the king of the side that
\* moves is not attacked by any opposing piece in the state after
\* do_move(from, to).
C4_SelfCheckRule ==
    \A from_pos \in Positions :
        is_legal_start(game, from_pos) =>
            \A to_pos \in Positions :
                is_legal(game, from_pos, to_pos) =>
                    LET after == do_move(game, from_pos, to_pos) IN
                    \A k \in Kings(after, game.turn) :
                        ~RefAttacked(after, k, Not(game.turn))

\* C4 witness: moves have been made, and a move that passes the occupancy and
\* geometry checks of is_legal is rejected because it leaves the mover's king
\* attacked, while another move is accepted.
C4_Witness ==
    /\ last # None
    /\ \E from_pos \in Positions, to_pos \in Positions :
           /\ is_legal_start(game, from_pos)
           /\ ~is_legal_start(game, to_pos)
           /\ is_attacking_movement_ok(game, from_pos, to_pos, FALSE)
           /\ ~do_move_panics(game, from_pos, to_pos)
           /\ RefAttacked(do_move(game, from_pos, to_pos),
                          CHOOSE k \in Kings(do_move(game, from_pos, to_pos), game.turn) : TRUE,
                          Not(game.turn))
           /\ is_legal_outcome(game, from_pos, to_pos) = "false"
    /\ \E from_pos \in Positions, to_pos \in Positions :
           is_legal_start(game, from_pos) /\ is_legal(game, from_pos, to_pos)

\* C5: the board holds exactly one White king and exactly one Black king.
C5_OneKingEach ==
    \A c \in Color : Cardinality(Kings(game, c)) = 1

\* C5 witness: after some moves the side to move is in check, the position in
\* which a king would be captured next if legality did not protect it.
C5_Witness ==
    /\ last # None
    /\ \E k \in Kings(game, game.turn) : RefAttacked(game, k, Not(game.turn))
    /\ C5_OneKingEach

\* C6: is_legal rejects a two-square horizontal king move toward a corner if
\* the king has moved before or the rook standing on that corner has moved
\* before.
C6_CastlingRightLost ==
    \A mv \in CastlingMoves(game) :
        (\/ mv[1] \in moved
         \/ /\ At(game, Corner(mv)) = Occupied("Rook", game.turn)
            /\ Corner(mv) \in moved)
            => is_legal_outcome(game, mv[1], mv[2]) # "true"

PawnDiagonalsOntoEmpty(gs) ==
    {mv \in Pawns(gs, gs.turn) \X Positions :
        /\ mv[2][1] # mv[1][1]
        /\ Abs(mv[2][1] - mv[1][1]) = Abs(mv[2][2] - mv[1][2])
        /\ At(gs, mv[2]) = Empty}

\* C8: a pawn's diagonal move onto an empty square passes is_legal only if
\* the move just applied was an enemy pawn's two-square advance to a square S
\* beside the capturing pawn, and only onto the square directly behind S.
C8_EnPassantOnlyAtOnce ==
    \A mv \in PawnDiagonalsOntoEmpty(game) :
        is_legal(game, mv[1], mv[2]) =>
            /\ last # None
            /\ LET l == Unwrap(last) IN
               /\ l.sq.piece = "Pawn"
               /\ l.sq.color = Not(game.turn)
               /\ l.to[1] = l.from[1]
               /\ Abs(l.to[2] - l.from[2]) = 2
               /\ l.to[2] = mv[1][2]
               /\ Abs(l.to[1] - mv[1][1]) = 1
               /\ mv[2] = <<l.to[1], (l.from[2] + l.to[2]) \div 2>>

\* C8 witness: an en-passant capture is accepted right after the double
\* advance.
C8_Witness ==
    \E mv \in PawnDiagonalsOntoEmpty(game) : is_legal(game, mv[1], mv[2])

\* the same-file moves of the pawns of the side to move
PawnStraights(gs) ==
    {mv \in Pawns(gs, gs.turn) \X Positions : mv[2][1] = mv[1][1]}

\* C9: is_legal accepts a same-file pawn move only if it is one square
\* forward onto an empty square, or two squares forward by a pawn that has
\* not moved, over an empty square onto an empty square.
C9_PawnAdvance ==
    \A mv \in PawnStraights(game) :
        is_legal(game, mv[1], mv[2]) =>
            LET dy == mv[2][2] - mv[1][2]
                fwd == Forward(game.turn)
            IN \/ dy = fwd /\ At(game, mv[2]) = Empty
               \/ /\ dy = 2 * fwd
                  /\ ~At(game, mv[1]).moved
                  /\ At(game, <<mv[1][1], mv[1][2] + fwd>>) = Empty
                  /\ At(game, mv[2]) = Empty

PieceNames == {"Pawn", "Knight", "Bishop", "Rook", "Queen", "King"}

\* C17: for every position on the board, is_legal_start is true exactly when
\* the square holds a piece and that piece's colour is the side to move.
C17_LegalStart ==
    \A pos \in Positions :
        is_legal_start(game, pos) <=>
            /\ At(game, pos).piece \in PieceNames
            /\ At(game, pos).color = game.turn

\* C17 witness: with Black to move after White's first move, a black pawn
\* is a legal start, the white king and an empty square are not.
C17_Witness ==
    /\ ply = 1
    /\ game.turn = Black
    /\ is_legal_start(game, <<0, 1>>)
    /\ At(game, <<4, 7>>) = Occupied("King", White)
    /\ ~is_legal_start(game, <<4, 7>>)
    /\ At(game, <<0, 3>>) = Empty
    /\ ~is_legal_start(game, <<0, 3>>)

\* mv is a two-square horizontal move of a king
IsCastling(gs, mv) ==
    At(gs, mv[1]).piece = "King" /\ Abs(mv[2][1] - mv[1][1]) = 2 /\ mv[2][2] = mv[1][2]

\* mv is a diagonal move of a pawn onto an empty square
IsEnPassant(gs, mv) ==
    At(gs, mv[1]).piece = "Pawn" /\ mv[2][1] # mv[1][1] /\ At(gs, mv[2]) = Empty

\* the squares besides from and to that mv may change: the corner and the
\* square the king passes over in a castling move, the square beside the
\* capturing pawn on the file it moves to in an en-passant capture
SideSquares(gs, mv) ==
    IF IsCastling(gs, mv) THEN {Corner(mv), Transit(mv)}
    ELSE IF IsEnPassant(gs, mv) THEN {<<mv[2][1], mv[1][2]>>}
    ELSE {}

\* C23: for every move that passed is_legal, do_move leaves the moved piece
\* on to (a pawn with its has-moved flag set), from Empty and the side to
\* move flipped, and every square other than from, to, the rook's two
\* squares in a castling move and the captured pawn's square in an
\* en-passant capture as it was.
C23_MoveEffect ==
    [][game' # game =>
         LET mv == <<Unwrap(last').from, Unwrap(last').to>> IN
         /\ is_legal(game, mv[1], mv[2])
         /\ game' = do_move(game, mv[1], mv[2])
         /\ At(game', mv[2]) =
               IF At(game, mv[1]).piece = "Pawn"
               THEN Pawn(TRUE, game.turn)
               ELSE At(game, mv[1])
         /\ At(game', mv[1]) = Empty
         /\ game'.turn = Not(game.turn)
         /\ \A p \in Positions \ ({mv[1], mv[2]} \cup SideSquares(game, mv)) :
                At(game', p) = At(game, p)]_vars

\* C23 witness: the move just applied was an en-passant capture: the pawn
\* stands on to with its flag set, from and the square beside it on the
\* file of to are Empty, and the other side is to move.
C23_Witness ==
    /\ last # None
    /\ \E l \in {Unwrap(last)} :
           /\ l.sq.piece = "Pawn"
           /\ l.to[1] # l.from[1]
           /\ Cardinality(Pieces(game, game.turn)) = 15
           /\ Cardinality(Pawns(game, game.turn)) = 7
           /\ At(game, l.to) = Pawn(TRUE, l.sq.color)
           /\ At(game, l.from) = Empty
           /\ At(game, <<l.to[1], l.from[2]>>) = Empty
           /\ game.turn = Not(l.sq.color)
           /\ game.en_passant_square = None

\* the castling-rights flags of colour c, as <<left, right>>
CastlingFlags(gs, c) ==
    IF c = White
    THEN <<gs.white_can_castle_left, gs.white_can_castle_right>>
    ELSE <<gs.black_can_castle_left, gs.black_can_castle_right>>

\* C24: do_move of a castling move that passed is_legal puts the rook of
\* the moving colour on the square the king passed over, which lies beside
\* the king's destination on the side of its origin, empties the corner,
\* clears both castling-rights flags of the moving colour and leaves the
\* other colour's flags as they were.
C24_CastlingEffect ==
    \A mv \in {m \in CastlingMoves(game) : is_legal(game, m[1], m[2])} :
        \E after \in {do_move(game, mv[1], mv[2])} :
            /\ At(after, Transit(mv)) = Occupied("Rook", game.turn)
            /\ Abs(Transit(mv)[1] - mv[2][1]) = 1
            /\ Abs(Transit(mv)[1] - mv[1][1]) = 1
            /\ At(after, Corner(mv)) = Empty
            /\ At(after, mv[2]) = Occupied("King", game.turn)
            /\ CastlingFlags(after, game.turn) = <<FALSE, FALSE>>
            /\ CastlingFlags(after, Not(game.turn)) = CastlingFlags(game, Not(game.turn))

\* C24 witness: Black has a castling move toward file 0 that passes
\* is_legal while both flags of the mover and both flags of the other
\* colour are true.
C24_Witness ==
    /\ game.turn = Black
    /\ \E mv \in CastlingMoves(game) : is_legal(game, mv[1], mv[2]) /\ Corner(mv) = <<0, 0>>
    /\ CastlingFlags(game, game.turn) = <<TRUE, TRUE>>
    /\ CastlingFlags(game, Not(game.turn)) = <<TRUE, TRUE>>

\* the move recorded in last was a pawn advancing two ranks
LastWasDoubleAdvance ==
    /\ last # None
    /\ Unwrap(last).sq.piece = "Pawn"
    /\ Abs(Unwrap(last).to[2] - Unwrap(last).from[2]) = 2

\* C25: after every do_move(from, to) the en-passant target is Some(to) if
\* the move was a pawn advancing two ranks and None otherwise: in every
\* reachable state the target is present exactly when the move just applied
\* was a pawn's double advance, and it is then that pawn's landing square.
C25_EnPassantTarget ==
    IF LastWasDoubleAdvance
    THEN game.en_passant_square = Some(Unwrap(last).to)
    ELSE game.en_passant_square = None

\* C25 witness: the target names the landing square of the pawn that has
\* just advanced two ranks, after an earlier double advance whose target is
\* gone.
C25_Witness ==
    /\ ply >= 3
    /\ LastWasDoubleAdvance
    /\ game.en_passant_square = Some(Unwrap(last).to)
    /\ At(game, Unwrap(last).to) = Pawn(TRUE, Not(game.turn))
    /\ \E p \in Pawns(game, game.turn) : At(game, p).moved /\ p[2] \in {3, 4}

\* C26: when do_move applies an en-passant capture that passed is_legal, an
\* enemy pawn stands on the square recorded as the en-passant target before
\* the move and is removed: the opponent has exactly one pawn fewer, every
\* other piece of the opponent stands where it stood, and the mover has as
\* many pieces as before.
C26_EnPassantCapture ==
    \A mv \in {m \in PawnDiagonalsOntoEmpty(game) : is_legal(game, m[1], m[2])} :
        \E after \in {do_move(game, mv[1], mv[2])} :
            /\ game.en_passant_square # None
            /\ LET target == Unwrap(game.en_passant_square)
                   enemy == Not(game.turn)
               IN /\ At(game, target).piece = "Pawn"
                  /\ At(game, target).color = enemy
                  /\ At(after, target) = Empty
                  /\ Cardinality(Pawns(after, enemy)) = Cardinality(Pawns(game, enemy)) - 1
                  /\ Pieces(after, enemy) = Pieces(game, enemy) \ {target}
                  /\ \A p \in Pieces(after, enemy) : At(after, p) = At(game, p)
                  /\ Cardinality(Pieces(after, game.turn)) = Cardinality(Pieces(game, game.turn))

\* C26 witness: an en-passant capture by Black passes is_legal; the target
\* is the pawn beside the capturing pawn, and the capture takes the opponent
\* from eight pawns to seven.
C26_Witness ==
    \E mv \in PawnDiagonalsOntoEmpty(game) :
        /\ game.turn = Black
        /\ is_legal(game, mv[1], mv[2])
        /\ game.en_passant_square = Some(<<mv[2][1], mv[1][2]>>)
        /\ Cardinality(Pawns(game, Not(game.turn))) = 8
        /\ Cardinality(Pawns(do_move(game, mv[1], mv[2]), Not(game.turn))) = 7

\* the sequence holds every occupied square of gs once and no other square
YieldsOccupiedOnce(gs, seq) ==
    /\ {seq[i] : i \in 1..Len(seq)} = {p \in Positions : At(gs, p) # Empty}
    /\ \A i \in 1..Len(seq), j \in 1..Len(seq) : seq[i] = seq[j] => i = j

\* C28 as stated: piece_iterator yields every occupied square exactly once
\* and no empty square, in rank-major order: by increasing rank, and within
\* a rank by increasing file (a position is <<file, rank>>).
C28_RankMajor ==
    LET seq == piece_iterator(game) IN
    /\ YieldsOccupiedOnce(game, seq)
    /\ \A i \in 1..Len(seq), j \in 1..Len(seq) :
           i < j => \/ seq[i][2] < seq[j][2]
                    \/ seq[i][2] = seq[j][2] /\ seq[i][1] < seq[j][1]

\* C28 amended: piece_iterator yields every occupied square exactly once
\* and no empty square, in file-major order: by increasing file, and within
\* a file by increasing rank.
C28_FileMajor ==
    LET seq == piece_iterator(game) IN
    /\ YieldsOccupiedOnce(game, seq)
    /\ \A i \in 1..Len(seq), j \in 1..Len(seq) :
           i < j => \/ seq[i][1] < seq[j][1]
                    \/ seq[i][1] = seq[j][1] /\ seq[i][2] < seq[j][2]

\* C28 witness: after a capture the sequence has fewer than 32 elements; it
\* starts with the two squares of file 0 nearest rank 0 and ends on file 7.
C28_Witness ==
    LET seq == piece_iterator(game) IN
    /\ last # None
    /\ Len(seq) < 32
    /\ seq[1] = <<0, 0>>
    /\ seq[2] = <<0, 1>>
    /\ seq[Len(seq)][1] = 7

\* C29: in every state reached from the standard position by moves that
\* passed is_legal, is_legal returns true or false for every pair of squares
\* of the board: no assertion of do_move or is_square_attacked fails and no
\* unwrap or panic branch is reached.
C29_IsLegalNeverFails ==
    /\ ~crashed
    /\ \A from_pos \in Positions, to_pos \in Positions :
           is_legal_outcome(game, from_pos, to_pos) \in {"true", "false"}

\* the back rank of colour c
BackRank(c) == IF c = White THEN 7 ELSE 0

\* C30: in every state reached from the standard position by moves that
\* passed is_legal, a castling-rights flag of a colour is true only while
\* that colour's king stands on file 4 of its back rank and a rook of that
\* colour stands on the flag's corner of that rank (file 0 for left, file 7
\* for right).
C30_FlagImpliesKingAndRook ==
    \A c \in Color : \A side \in {1, 2} :
        CastlingFlags(game, c)[side] =>
            /\ At(game, <<4, BackRank(c)>>) = Occupied("King", c)
            /\ At(game, <<IF side = 1 THEN 0 ELSE 7, BackRank(c)>>) = Occupied("Rook", c)

-----------------------------------------------------------------------------
(* Claims about the checkmate query, checked under SpecMate *)

\* the first position of tests::test_checkmate: rooks on (0,0) and (0,1),
\* the white king on (0,2), the black king on (4,0), Black to move
TwoRooks == setup_set_game(corner_state(4, "R"), Black, FALSE, FALSE, FALSE, FALSE, None)
\* the second: a bishop in place of the second rook
RookAndBishop == setup_set_game(corner_state(4, "B"), Black, FALSE, FALSE, FALSE, FALSE, None)

\* colour c, treated as the side to move, has a pair (square with a piece of
\* c, any target square) that passes is_legal
HasEscape(gs, c) ==
    \E from_pos \in Positions :
        /\ At(gs, from_pos).color = c
        /\ \E to_pos \in Positions : is_legal([gs EXCEPT !.turn = c], from_pos, to_pos)

\* C10: is_checkmate about colour C (attacker Not(C)) returns true exactly
\* when C's king is attacked by the opponent and no pair (piece of C, target)
\* passes is_legal with C to move; it is true of the two-rook position and
\* false with a bishop in place of the second rook.
C10_MateIffNoEscape ==
    (query.asked /\ query.call = "is_checkmate") =>
        LET c == Not(query.attacker) IN
        /\ query.result \in {"true", "false"}
        /\ query.result = "true" <=>
               /\ \E k \in Kings(query.gs, c) : RefAttacked(query.gs, k, query.attacker)
               /\ ~HasEscape(query.gs, c)
        /\ (query.gs = TwoRooks /\ query.attacker = White) => query.result = "true"
        /\ (query.gs = RookAndBishop /\ query.attacker = White) => query.result = "false"

\* C10 witness: the query about Black on the two-rook position answered true.
C10_Witness ==
    /\ query.asked
    /\ query.call = "is_checkmate"
    /\ query.gs = TwoRooks
    /\ query.attacker = White
    /\ query.result = "true"

\* the third position of tests::test_checkmate: the first with White to move
TwoRooksWhiteToMove ==
    setup_set_game(corner_state(4, "R"), White, FALSE, FALSE, FALSE, FALSE, None)

\* C11 as stated: when the king of the colour asked about is attacked and
\* that colour has no escape, but the side to move is the other colour,
\* is_checkmate returns false.
C11_RespectsSideToMove ==
    (/\ query.asked
     /\ query.call = "is_checkmate"
     /\ query.gs.turn = query.attacker
     /\ \E k \in Kings(query.gs, Not(query.attacker)) :
            RefAttacked(query.gs, k, query.attacker)
     /\ ~HasEscape(query.gs, Not(query.attacker)))
        => query.result = "false"

\* C11 amended: Board::is_checkmated asks about the side to move, and answers
\* true exactly when that side's king is attacked and it has no escape; on
\* the two-rook position with White to move it asks about White and returns
\* false, while is_checkmate about Black returns true on that position
\* whoever is to move.
C11_AsksAboutSideToMove ==
    /\ (query.asked /\ query.call = "is_checkmated") =>
          LET c == query.gs.turn IN
          /\ query.result = "true" <=>
                 /\ \E k \in Kings(query.gs, c) : RefAttacked(query.gs, k, Not(c))
                 /\ ~HasEscape(query.gs, c)
          /\ query.gs = TwoRooksWhiteToMove => query.result = "false"
    /\ (/\ query.asked
        /\ query.call = "is_checkmate"
        /\ query.attacker = White
        /\ query.gs \in {TwoRooks, TwoRooksWhiteToMove}) => query.result = "true"

\* C11 witness: is_checkmated asked on the two-rook position with White to
\* move has answered false.
C11_Witness ==
    /\ query.asked
    /\ query.call = "is_checkmated"
    /\ query.gs = TwoRooksWhiteToMove
    /\ query.result = "false"

\* C27: the checkmate query, when it returns, leaves the state as it found
\* it: side to move, squares, castling-rights flags and en-passant target
\* are what they were, whether it returned at once (king not attacked),
\* stopped at the first escape or ran through every pair.
C27_QueryLeavesState ==
    (query.asked /\ query.result # "panic") =>
        /\ query.leaves.turn = query.gs.turn
        /\ query.leaves.board_state = query.gs.board_state
        /\ query.leaves.en_passant_square = query.gs.en_passant_square
        /\ \A c \in Color : CastlingFlags(query.leaves, c) = CastlingFlags(query.gs, c)
        /\ query.leaves = query.gs

\* C27 witness: is_checkmate about the side that is not to move found its
\* king attacked, switched the turn to it, stopped at the first escape and
\* returned false, with the state as it was.
C27_Witness ==
    /\ query.asked
    /\ query.call = "is_checkmate"
    /\ query.gs.turn = query.attacker
    /\ \E k \in Kings(query.gs, Not(query.attacker)) :
           RefAttacked(query.gs, k, query.attacker)
    /\ HasEscape(query.gs, Not(query.attacker))
    /\ query.result = "false"
    /\ query.leaves = query.gs

-----------------------------------------------------------------------------
(* Claims about the session of two peers, checked under Spec and FairSpec *)

Quiet == \A p \in PeerIds : chan[p] = <<>>

\* the Move packets of p that the other peer has not yet answered
Unanswered(p) == sent[p].Move - (sent[Other(p)].AckMove + sent[Other(p)].RejMove)

\* C1: whenever no packet is in flight and one peer is in MyMove while the
\* other is in OtherMove, the two boards are identical in every field.
C1_BoardsInSync ==
    (Quiet /\ {peer[p].state : p \in PeerIds} = {"MyMove", "OtherMove"})
        => peer["listener"].board = peer["connector"].board

\* C1 witness: both peers have had a move acknowledged, nothing is in flight
\* and it is one peer's turn again.
C1_Witness ==
    /\ Quiet
    /\ {peer[p].state : p \in PeerIds} = {"MyMove", "OtherMove"}
    /\ \A p \in PeerIds : sent[p].AckMove >= 1
    /\ peer["listener"].board = peer["connector"].board
    /\ peer["listener"].board # setup_new_game

\* C2: at most one Move is unanswered at any moment, no peer has two Moves
\* unanswered, no Move is answered twice, and every Move is answered.
C2_HalfDuplex ==
    /\ [](/\ \A p \in PeerIds : Unanswered(p) \in {0, 1}
          /\ Unanswered("listener") + Unanswered("connector") <= 1)
    /\ \A p \in PeerIds : (Unanswered(p) = 1) ~> (Unanswered(p) = 0)

\* C2 witness: a Move is in flight, unanswered, after earlier Moves of both
\* peers were answered.
C2_Witness ==
    /\ Unanswered("listener") = 1
    /\ sent["listener"].Move >= 2
    /\ sent["connector"].Move >= 1

\* C3: the listener starts in MyMove and the connector in OtherMove, both
\* with White to move; the connector sends a Move only after the listener
\* has sent one and after it has itself sent an AckMove.
C3_ListenerMovesFirst ==
    /\ peer["listener"].state = "MyMove"
    /\ peer["connector"].state = "OtherMove"
    /\ \A p \in PeerIds : peer[p].board.turn = White
    /\ [](\A p \in PeerIds :
            /\ sent[p].Move >= 1 => sent["listener"].Move >= 1
            /\ sent["connector"].Move >= 1 => sent["connector"].AckMove >= 1)

\* C3 witness: the connector has sent a Move.
C3_Witness == sent["connector"].Move >= 1

\* the bytes p writes in this step
WrittenBytes(p) ==
    SubSeq(chan'[Other(p)], Len(chan[Other(p)]) + 1, Len(chan'[Other(p)]))

\* C13: every Move packet a peer sends passes is_legal on the sender's board
\* as it is when the packet is sent; a step of a peer in MyMove sends nothing
\* and keeps the board, and it either stays in MyMove (the selection did not
\* pass is_legal: the user is asked again) or enters AwaitAck with a move
\* that passes is_legal.
C13_OnlyLegalMovesSent ==
    [][\A p \in PeerIds :
         /\ sent'[p].Move # sent[p].Move =>
               LET mv == packet_deserialize(WrittenBytes(p)) IN
               /\ mv.kind = "Move"
               /\ is_legal(peer[p].board, mv.bp1, mv.bp2)
         /\ peer[p].state = "MyMove" =>
               /\ sent'[p] = sent[p]
               /\ peer'[p].board = peer[p].board
               /\ \/ peer'[p] = peer[p]
                  \/ /\ peer'[p].state = "AwaitAck"
                     /\ is_legal(peer[p].board, peer'[p].next_move[1],
                                 peer'[p].next_move[2])]_vars

-----------------------------------------------------------------------------
(* Claims about one peer and the bytes of its stream, checked under SpecWire *)

\* this step is a read of the next packet by p in OtherMove
OtherMoveReads(p) ==
    /\ peer[p].state = "OtherMove"
    /\ packet_ready(chan[p])
    /\ chan'[p] = packet_rest(chan[p])

\* C12: a peer in OtherMove that reads a Move packet (any coordinate bytes)
\* which does not pass is_legal on its board sends exactly one RejMove and
\* nothing else, keeps its board, and stays in OtherMove; it does not fail.
C12_IllegalMoveRejected ==
    [][\A p \in PeerIds :
         LET next_packet == packet_deserialize(chan[p]) IN
         (/\ OtherMoveReads(p)
          /\ next_packet.kind = "Move"
          /\ ~is_legal(peer[p].board, next_packet.bp1, next_packet.bp2))
            => /\ chan'[Other(p)] = chan[Other(p)] \o packet_serialize(PacketRejMove)
               /\ sent'[p] = [sent[p] EXCEPT !.RejMove = @ + 1]
               /\ peer'[p] = peer[p]]_vars

\* this step is a read of the next packet by p in AwaitAck
AwaitAckReads(p) ==
    /\ peer[p].state = "AwaitAck"
    /\ peer[p].sent_move
    /\ packet_ready(chan[p])
    /\ chan'[p] = packet_rest(chan[p])

\* C14: a peer in AwaitAck that reads RejMove ends: its process is over, the
\* pending move is not applied and nothing is written; a process that is
\* over enters no state and writes nothing.
C14_RejMoveIsFatal ==
    [][\A p \in PeerIds :
         /\ (AwaitAckReads(p) /\ packet_deserialize(chan[p]).kind = "RejMove") =>
               /\ peer'[p] = [peer[p] EXCEPT !.state = "Failed"]
               /\ sent'[p] = sent[p]
         /\ peer[p].state = "Failed" =>
               /\ peer'[p] = peer[p]
               /\ sent'[p] = sent[p]]_vars

\* C14 witness: the listener sent its first Move, the remote end answered
\* with RejMove and nothing else, and the listener's process is over with
\* the board it started from.
C14_Witness ==
    /\ peer["listener"].state = "Failed"
    /\ peer["listener"].sent_move
    /\ peer["listener"].board = setup_new_game
    /\ peer["connector"].state = "Remote"
    /\ sent["connector"] = [Move |-> 0, AckMove |-> 0, RejMove |-> 1]
    /\ chan["listener"] = <<>>

\* C16: a packet whose first byte is none of 0, 1, 2 decodes to the decode
\* error, and a peer that reads it in AwaitAck or in OtherMove ends there:
\* its board and pending move stay as they were and it writes nothing.
C16_BadTagEndsSession ==
    [][/\ \A b \in Byte \ {0, 1, 2} : packet_deserialize(<<b>>).kind = "BadPacketError"
       /\ \A p \in PeerIds :
            ((AwaitAckReads(p) \/ OtherMoveReads(p)) /\ chan[p][1] \notin {0, 1, 2}) =>
               /\ packet_deserialize(chan[p]).kind = "BadPacketError"
               /\ peer'[p] = [peer[p] EXCEPT !.state = "Failed"]
               /\ sent'[p] = sent[p]
               /\ chan'[Other(p)] = chan[Other(p)]]_vars

\* C16 witness: the listener sent its first Move, the remote end wrote only
\* a packet with an unknown tag, and the listener's process is over with the
\* board it started from.
C16_Witness ==
    /\ peer["listener"].state = "Failed"
    /\ peer["listener"].sent_move
    /\ peer["listener"].board = setup_new_game
    /\ peer["connector"].state = "Remote"
    /\ Written("connector") = 0
    /\ chan["listener"] = <<>>

\* C22: a peer in AwaitAck that reads a Move, and a peer in OtherMove that
\* reads an AckMove or a RejMove, consumes the packet and nothing else: its
\* state, board and pending move stay as they were and it writes nothing.
C22_UnexpectedPacketDiscarded ==
    [][\A p \in PeerIds :
         LET next_packet == packet_deserialize(chan[p]) IN
         (\/ AwaitAckReads(p) /\ next_packet.kind = "Move"
          \/ OtherMoveReads(p) /\ next_packet.kind \in {"AckMove", "RejMove"})
            => /\ peer'[p] = peer[p]
               /\ sent'[p] = sent[p]
               /\ chan'[Other(p)] = chan[Other(p)]]_vars

\* C22 witness: the connector, waiting in OtherMove, was sent an AckMove and
\* two Moves; it has written one AckMove and one Move of its own and no
\* RejMove, has read everything and waits in AwaitAck: the AckMove was
\* discarded in OtherMove and the second Move in AwaitAck.
C22_Witness ==
    /\ peer["listener"].state = "Remote"
    /\ sent["listener"] = [Move |-> 2, AckMove |-> 1, RejMove |-> 0]
    /\ sent["connector"] = [Move |-> 1, AckMove |-> 1, RejMove |-> 0]
    /\ chan["connector"] = <<>>
    /\ peer["connector"].state = "AwaitAck"
    /\ peer["connector"].sent_move

-----------------------------------------------------------------------------
(* Claims about the packet encoding, checked under SpecCodec *)

\* C15: for every Packet value (Move with coordinates 0..7, AckMove, RejMove)
\* the encoding is 5 bytes with tag 0, 1 byte with tag 1, 1 byte with tag 2,
\* and decoding a stream that starts with those bytes yields the packet and
\* consumes exactly those bytes.
C15_RoundTrip ==
    /\ query.stage \in {"written", "read"} =>
          /\ query.packet.kind = "Move" => Len(query.bytes) = 5 /\ query.bytes[1] = 0
          /\ query.packet.kind = "AckMove" => query.bytes = <<1>>
          /\ query.packet.kind = "RejMove" => query.bytes = <<2>>
          /\ \A i \in 1..Len(query.bytes) : query.bytes[i] \in Byte
    /\ query.stage = "read" =>
          /\ query.decoded = query.packet
          /\ query.stream = query.later

\* C15 witness: a Move between two different squares off the diagonal was
\* read back with another packet's bytes behind it.
C15_Witness ==
    /\ query.stage = "read"
    /\ query.packet = PacketMove(<<4, 6>>, <<4, 4>>)
    /\ query.decoded = query.packet
    /\ query.later = <<0, 4, 6, 4, 4>>

-----------------------------------------------------------------------------
(* Claims about sieve_upto, checked under SpecSieve *)

IsPrime(n) == n >= 2 /\ \A d \in 2..(n - 1) : n % d # 0

\* C18: for every n >= 1, sieve_upto(n) never indexes outside its vector and
\* returns the primes p with 2 <= p <= n, each once, in ascending order.
C18_SievePrimes ==
    /\ query.pc # "panic"
    /\ query.pc = "done" =>
          /\ \A a \in 1..Len(query.result), b \in 1..Len(query.result) :
                 a < b => query.result[a] < query.result[b]
          /\ {query.result[a] : a \in 1..Len(query.result)}
                 = {n \in 2..query.upto : IsPrime(n)}
          /\ query.upto = 1 => query.result = <<>>

\* C18 witness: sieve_upto(30) has returned the ten primes up to 29.
C18_Witness ==
    /\ query.pc = "done"
    /\ query.upto = 30
    /\ query.result = <<2, 3, 5, 7, 11, 13, 17, 19, 23, 29>>

-----------------------------------------------------------------------------
(* Claims about is_tree, checked under SpecGraph *)

\* how many times v occurs in list
RECURSIVE Count(_, _)
Count(list, v) ==
    IF list = <<>> THEN 0
    ELSE (IF Head(list) = v THEN 1 ELSE 0) + Count(Tail(list), v)

\* the targets of the edges leaving u
Out(edges, u) == {edges[u + 1][n] : n \in 1..Len(edges[u + 1])}

\* the vertices reached from the set S along at most k edges
RECURSIVE ReachedFrom(_, _, _)
ReachedFrom(edges, S, k) ==
    IF k = 0 THEN S
    ELSE ReachedFrom(edges, S \cup UNION {Out(edges, u) : u \in S}, k - 1)

\* every edge list of the graph, one after the other
RECURSIVE AllEdges(_)
AllEdges(edges) ==
    IF edges = <<>> THEN <<>> ELSE Head(edges) \o AllEdges(Tail(edges))

\* no directed cycle (self-loops included) and no vertex with more than one
\* incoming edge
IsForest(edges) ==
    LET V == 0..(Len(edges) - 1) IN
    /\ \A v \in V : v \notin ReachedFrom(edges, Out(edges, v), Len(edges))
    /\ \A v \in V : Count(AllEdges(edges), v) <= 1

\* C19: for every graph built by EdgeListGraph::make, is_tree returns true
\* exactly when the graph is a forest; being a forest does not depend on the
\* numbering of the vertices, so neither does the answer.
C19_IsTreeIffForest ==
    query.pc = "done" => (query.result <=> IsForest(query.edges))

-----------------------------------------------------------------------------
(* Claims about the commit of a move, checked under Spec *)

\* p, in OtherMove, accepts in this step the Move packet at the head of its
\* stream: it applies the move, writes AckMove and enters MyMove
AcceptsMove(p) ==
    LET next_packet == packet_deserialize(chan[p]) IN
    /\ peer[p].state = "OtherMove"
    /\ packet_ready(chan[p])
    /\ next_packet.kind = "Move"
    /\ chan'[p] = packet_rest(chan[p])
    /\ peer'[p] = [peer[p] EXCEPT
                     !.state = "MyMove",
                     !.board = do_move(@, next_packet.bp1, next_packet.bp2)]
    /\ peer'[p].board # peer[p].board
    /\ WrittenBytes(p) = packet_serialize(PacketAckMove)
    /\ sent'[p] = [sent[p] EXCEPT !.AckMove = @ + 1]

\* p, in AwaitAck with its Move written, reads AckMove in this step: it
\* applies its pending move and enters OtherMove
CommitsOnAck(p) ==
    /\ peer[p].state = "AwaitAck"
    /\ peer[p].sent_move
    /\ packet_ready(chan[p])
    /\ packet_deserialize(chan[p]).kind = "AckMove"
    /\ chan'[p] = packet_rest(chan[p])
    /\ peer'[p] = [peer[p] EXCEPT
                     !.state = "OtherMove",
                     !.board = do_move(@, peer[p].next_move[1], peer[p].next_move[2])]
    /\ peer'[p].board # peer[p].board
    /\ sent'[p] = sent[p]

\* C20: a peer's board changes only in a step that accepts a received Move
\* (the move is applied, AckMove is written, MyMove is entered) or in a step
\* of AwaitAck that reads AckMove (the pending move is applied once,
\* OtherMove is entered); AckMove is written only by an accepting step; and a
\* read of AckMove by a peer waiting for it is always such a commit.  So the
\* sender's board stays as it was from writing the Move until the AckMove.
C20_CommitWithAck ==
    [][\A p \in PeerIds :
         /\ peer'[p].board # peer[p].board => AcceptsMove(p) \/ CommitsOnAck(p)
         /\ sent'[p].AckMove # sent[p].AckMove => AcceptsMove(p)
         /\ (AwaitAckReads(p) /\ packet_deserialize(chan[p]).kind = "AckMove")
               => CommitsOnAck(p)
         /\ peer[p].state = "AwaitAck" /\ peer'[p].state = "OtherMove"
               => CommitsOnAck(p)
         /\ peer[p].state = "OtherMove" /\ peer'[p].state = "MyMove"
               => AcceptsMove(p)]_vars

\* C20 witness: the listener's first move was accepted by the connector and
\* acknowledged; both boards hold exactly that move, the listener is in
\* OtherMove and the connector in MyMove.
C20_Witness ==
    /\ peer["listener"].state = "OtherMove"
    /\ peer["connector"].state = "MyMove"
    /\ sent["listener"] = [Move |-> 1, AckMove |-> 0, RejMove |-> 0]
    /\ sent["connector"] = [Move |-> 0, AckMove |-> 1, RejMove |-> 0]
    /\ peer["listener"].board # setup_new_game
    /\ peer["listener"].board =
          do_move(setup_new_game, peer["listener"].next_move[1],
                  peer["listener"].next_move[2])
    /\ peer["connector"].board = peer["listener"].board

\* the colour a peer plays: the listener starts in MyMove on a board with
\* White to move, the connector in OtherMove
OwnColour(p) == IF p = "listener" THEN White ELSE Black

\* C31: in every reachable state of a run of two peers, a peer in MyMove or
\* AwaitAck has a board whose side to move is its own colour (White for the
\* listener, Black for the connector), and a peer in OtherMove has a board
\* whose side to move is the other peer's colour.
C31_TurnMatchesState ==
    \A p \in PeerIds :
        /\ peer[p].state \in {"MyMove", "AwaitAck"} =>
               peer[p].board.turn = OwnColour(p)
        /\ peer[p].state = "OtherMove" =>
               peer[p].board.turn = OwnColour(Other(p))

\* C31 witness: both peers have had a move acknowledged; the connector waits
\* for the answer to its second move with Black to move on its board, and
\* the listener is in OtherMove with Black to move on its board as well.
C31_Witness ==
    /\ peer["connector"].state = "AwaitAck"
    /\ peer["connector"].board.turn = Black
    /\ peer["listener"].state = "OtherMove"
    /\ peer["listener"].board.turn = Black
    /\ sent["listener"].AckMove >= 1
    /\ sent["connector"].AckMove >= 2

\* C32: in a run of two peers that both start from the standard position,
\* no RejMove packet is ever sent and none is ever in a stream, so no peer
\* in AwaitAck ever reads one: every Move a peer receives passes is_legal on
\* its board, as it did on the sender's.
C32_NoRejMoveSent ==
    /\ [](\A p \in PeerIds : sent[p].RejMove = 0)
    /\ [][\A p \in PeerIds :
            /\ sent'[p].RejMove = sent[p].RejMove
            /\ AwaitAckReads(p) => packet_deserialize(chan[p]).kind # "RejMove"
            /\ (OtherMoveReads(p) /\ packet_deserialize(chan[p]).kind = "Move") =>
                   /\ sent'[p].AckMove = sent[p].AckMove + 1
                   /\ peer'[p].state = "MyMove"]_vars

\* C32 witness: each peer has judged Moves of the other, one of them a move
\* chosen freely after the opening line, every Move has been answered with
\* AckMove and no RejMove was sent.
C32_Witness ==
    /\ free >= 1
    /\ Quiet
    /\ \A p \in PeerIds :
           /\ sent[p].Move >= 1
           /\ sent[p].RejMove = 0
           /\ sent[Other(p)].AckMove = sent[p].Move

-----------------------------------------------------------------------------
(* Claims about the progress of a session, checked under UserFairSpec *)

\* the players are past the opening line and may select any pair of squares
FreeChoice == ply >= Len(Book[line]) /\ free < MaxFreeNet

\* C21: with a fair transport and a user who does not leave a legal
\* selection unmade forever, a peer that is in MyMove (with every pair of
\* squares open to selection) eventually enters AwaitAck.
C21_MyMoveLeadsToAwaitAck ==
    \A p \in PeerIds :
        [](peer[p].state = "MyMove" /\ FreeChoice => <>(peer[p].state = "AwaitAck"))

====
